---- MODULE Spec2Model ----
(***************************************************************************)
(* LettuceDetect: the span builder of TransformerDetector._predict         *)
(* (lettucedetect/models/inference.py), the character-level scorer         *)
(* evaluate_detector_char_level and the classification orchestrators       *)
(* evaluate_model, evaluate_model_example_level,                           *)
(* evaluate_detector_example_level, evaluate_detector_example_level_batch  *)
(* and evaluate_sentence_model (lettucedetect/models/evaluator.py), the     *)
(* HallucinationDetector facade with LLMDetector._create_labels            *)
(* (inference.py), and main of scripts/chatgpt_baseline.py and             *)
(* scripts/ragas_baseline.py.                                              *)
(*                                                                         *)
(* Conventions.  Python indices are 0-based and kept 0-based in the state  *)
(* (i, answer_start_token); sequence element k of the program is element   *)
(* k + 1 of the TLA+ sequence.  A Python None is the empty sequence and a  *)
(* present value v is <<v>>.  A class-1 probability is kept in tenths      *)
(* (6 is 0.6).  A text is the sequence of its characters.                  *)
(***************************************************************************)
EXTENDS Integers, Sequences, FiniteSets, TLC

\* ------------------------------------------------------------------ bounds
\* Longest token stream (context and answer tokens together).
MaxTokens == 3
\* Length of the answer text; token offsets range over 0 .. MaxChar.
MaxChar == 3
\* Most samples in a corpus given to evaluate_detector_char_level.
MaxSamples == 2
\* Most spans in one sample's predicted list and in its gold list.
MaxSpans == 2
\* Most entries the label and prediction lists of a classification
\* orchestrator grow to.
MaxItems == 3
\* Most token positions of one example of evaluate_model_example_level.
MaxPositions == 4
\* Most rows of one batch: token positions of a batch of evaluate_model,
\* examples of a batch of evaluate_model_example_level, sentences of a
\* document and documents of a batch of evaluate_sentence_model.
MaxBatchLen == 2
\* Longest text in an LLM response's "hallucination list".
MaxHal == 2
\* Most test samples in the input file of a baseline script.
MaxTestSamples == 51

\* ------------------------------------------------------------- span builder
VARIABLES
    pc,                  \* "tokenize" | "loop" | "done" | "raised": position in _predict
    offsets,             \* per token <<token_start, token_end>>
    probabilities,       \* per token the class-1 probability, in tenths
    answer_start_token,  \* index of the first answer token
    answer_char_offset,  \* character offset of the first answer token
    i,                   \* loop index of "for i in range(answer_start_token, n)"
    spans,               \* the result list
    current_span,        \* None (<<>>) or the span being built (<<span>>)
    span_tokens,         \* history: per emitted span, the token indices merged
    open_tokens          \* history: the token indices merged into current_span

spanVars == <<pc, offsets, probabilities, answer_start_token, answer_char_offset,
              i, spans, current_span, span_tokens, open_tokens>>

\* ------------------------------------------------------- char-level scorer
VARIABLES
    char_pc,          \* "fetch" | "fold" | "done" | "raised": position in
                      \* evaluate_detector_char_level
    sample_index,     \* number of samples taken from the corpus so far
    predicted_spans,  \* the current sample's predicted spans
    gold_spans,       \* the current sample's gold spans (sample.labels)
    total_overlap,
    total_predicted,
    total_gold,
    metrics,          \* <<>> or <<the returned dict>>
    swapped,          \* the same run on the corpus with every sample's
                      \* predicted and gold lists exchanged
    disjoint_corpus,  \* history: in every sample folded so far the predicted
                      \* spans were pairwise disjoint, and so were the gold spans
    exact_corpus      \* history: every sample folded so far had predicted
                      \* spans equal to its gold spans, pairwise disjoint

charVars == <<char_pc, sample_index, predicted_spans, gold_spans, total_overlap,
              total_predicted, total_gold, metrics, swapped, disjoint_corpus,
              exact_corpus>>

\* ------------------------------------------- classification orchestrators
VARIABLES
    orchestrator,     \* the evaluation function that runs
    detector,         \* the class of the detector object handed to it
    eval_pc,          \* position in the function: "init" | "loop" | "examples" |
                      \* "fold" | "report" | "done", or how it was left by an
                      \* exception: "raised" (the collaborator's), "ValueError"
                      \* (sklearn's) | "AttributeError"
    n_samples,        \* len(samples) of evaluate_detector_example_level_batch
    n_labels,         \* len(labels_list) of the current batch of
                      \* evaluate_sentence_model
    batch_size,       \* its batch_size argument
    batch_start,      \* its loop variable i
    batch_len,        \* number of rows of the current batch
    batch_i,          \* index of the inner loop over the current batch
    sample,           \* None (<<>>) or the row the inner loop has read
    example_labels,   \* the label list (all_labels of evaluate_model and of
                      \* evaluate_sentence_model)
    example_preds,    \* the prediction list (all_preds there)
    example_probs,    \* the score list of evaluate_model_example_level
    step_count,       \* step_count of evaluate_sentence_model
    doc_count,        \* its doc_count
    results,          \* None (<<>>) or the results dict
    folded,           \* history: the number of entries folded into the lists
    one_at_a_time     \* history: the lists evaluate_detector_example_level
                      \* builds over the samples taken so far

evalVars == <<orchestrator, detector, eval_pc, n_samples, n_labels, batch_size,
              batch_start,
              batch_len, batch_i, sample, example_labels, example_preds,
              example_probs, step_count, doc_count, results, folded, one_at_a_time>>

\* ------------------------------------------------ detector facade and LLM
VARIABLES
    method,           \* the method tag given to HallucinationDetector
    facade_pc,        \* "init" | "ready" | "transformer" | "llm" |
                      \* "create_labels" | "returned", or the exception that
                      \* left the call: "ValueError" | "AttributeError" |
                      \* "KeyError"
    output_format,    \* the output_format argument of the prediction request
    llm_content,      \* None (<<>>) or the LLM's response text, as what
                      \* re.search and json.loads make of it
    answer_text,      \* the answer argument of the prediction request
    labels            \* None (<<>>) or the list _create_labels returned

facadeVars == <<method, facade_pc, output_format, llm_content, answer_text, labels>>

\* -------------------------------------------------------- baseline scripts
VARIABLES
    script,           \* "chatgpt_baseline" | "ragas_baseline"
    script_pc,        \* "load" | "loop" | "done": position in main
    n_test,           \* len(test_samples); test sample k is written k
    iterated,         \* the list the loop runs over (test_samples, or
                      \* samples_to_process of ragas_baseline)
    num_processed,
    total_samples,
    samples,          \* the in-memory output list (hallu_data_gpt.samples,
                      \* hallucination_data_ragas.samples)
    output_file       \* None (<<>>, no file) or <<the list last written>>

scriptVars == <<script, script_pc, n_test, iterated, num_processed, total_samples,
                samples, output_file>>

vars == <<spanVars, charVars, evalVars, facadeVars, scriptVars>>

\* No detector facade is in use.
FacadeIdle ==
    /\ method = "idle"
    /\ facade_pc = "idle"
    /\ output_format = "idle"
    /\ llm_content = <<>>
    /\ answer_text = <<>>
    /\ labels = <<>>

\* No baseline script runs.
ScriptIdle ==
    /\ script = "idle"
    /\ script_pc = "idle"
    /\ n_test = 0
    /\ iterated = <<>>
    /\ num_processed = 0
    /\ total_samples = 0
    /\ samples = <<>>
    /\ output_file = <<>>

\* No classification orchestrator runs.
EvalIdle ==
    /\ orchestrator = "idle"
    /\ detector = "idle"
    /\ eval_pc = "idle"
    /\ n_samples = 0
    /\ n_labels = 0
    /\ batch_size = 0
    /\ batch_start = 0
    /\ batch_len = 0
    /\ batch_i = 0
    /\ sample = <<>>
    /\ example_labels = <<>>
    /\ example_preds = <<>>
    /\ example_probs = <<>>
    /\ step_count = 0
    /\ doc_count = 0
    /\ results = <<>>
    /\ folded = 0
    /\ one_at_a_time = <<>>

\* The answer text: MaxChar distinct characters, character k written k.
answer == [k \in 1 .. MaxChar |-> k]

\* Class-1 probabilities the classifier may report (tenths).
ProbLevels == {3, 6, 7, 9}

\* The last token offsets that are not those of a special token, <<0, 0>>.
RECURSIVE LastReal(_)
LastReal(offs) ==
    IF offs = <<>> THEN <<0, 0>>
    ELSE IF offs[Len(offs)] # <<0, 0>> THEN offs[Len(offs)]
    ELSE LastReal(SubSeq(offs, 1, Len(offs) - 1))

\* Offsets the tokenizer may give the next token: a special token has
\* <<0, 0>>; otherwise starts and ends never decrease along the sequence.
NextOffsets(offs) ==
    {<<0, 0>>} \cup
    {t \in (LastReal(offs)[1] .. MaxChar) \X (LastReal(offs)[2] .. MaxChar) :
        t[1] <= t[2]}

\* labels = full(-100); labels[answer_start_token:] = 0, read at index k.
Label(ast, k) ==
    IF k >= ast THEN 0 ELSE -100

\* token_preds[k]: argmax over the two classes (class 1 wins only when its
\* probability exceeds that of class 0), masked to -100 where the label is.
TokenPred(ast, probs, k) ==
    IF Label(ast, k) = -100 THEN -100
    ELSE IF probs[k + 1] > 10 - probs[k + 1] THEN 1 ELSE 0

\* answer[a:b] of Python: negative indices count from the end, both are
\* clamped to the text, and an empty range gives the empty text.
PySlice(text, a, b) ==
    LET n  == Len(text)
        a1 == IF a < 0 THEN a + n ELSE a
        b1 == IF b < 0 THEN b + n ELSE b
        lo == IF a1 < 0 THEN 0 ELSE IF a1 > n THEN n ELSE a1
        hi == IF b1 < 0 THEN 0 ELSE IF b1 > n THEN n ELSE b1
    IN  IF lo >= hi THEN <<>> ELSE SubSeq(text, lo + 1, hi)

\* offsets[k] of a tensor: a negative index counts from the end; an index
\* outside the tensor raises IndexError (<<>>).
TensorRow(offs, k) ==
    IF 0 <= k /\ k < Len(offs) THEN <<offs[k + 1]>>
    ELSE IF -Len(offs) <= k /\ k < 0 THEN <<offs[Len(offs) + k + 1]>>
    ELSE <<>>

\* Mutant of AnswerCharOffset: the first answer token is read without the
\* test that it exists.
AnswerCharOffsetUnguarded(ast, offs) ==
    IF TensorRow(offs, ast) = <<>> THEN <<>> ELSE <<TensorRow(offs, ast)[1][1]>>

\* The character offset of the first answer token, 0 when the answer starts
\* at or past the end of the offsets; <<>> when reading it raises.
AnswerCharOffset(ast, offs) ==
    IF ast < Len(offs)
    THEN IF TensorRow(offs, ast) = <<>> THEN <<>> ELSE <<TensorRow(offs, ast)[1][1]>>
    ELSE <<0>>

\* The loop's two "continue" tests: an ignored label, a zero-length token.
Skipped(label, tok) ==
    label = -100 \/ tok[1] = tok[2]

\* A class-1 token while no span is open.
OpenSpan(rel_start, rel_end, confidence) ==
    [start |-> rel_start, end |-> rel_end, confidence |-> confidence]

Max(a, b) ==
    IF a >= b THEN a ELSE b

\* Mutant of ExtendSpan: the newest token's probability replaces the span's.
ExtendSpanLastConfidence(cur, rel_end, confidence) ==
    [cur EXCEPT !.end = rel_end, !.confidence = confidence]

\* A class-1 token while a span is open.
ExtendSpan(cur, rel_end, confidence) ==
    [cur EXCEPT !.end = rel_end, !.confidence = Max(cur.confidence, confidence)]

\* current_span["text"] = answer[start:end]
Materialize(cur) ==
    [start |-> cur.start, end |-> cur.end, confidence |-> cur.confidence,
     text |-> PySlice(answer, cur.start, cur.end)]

\* Mutant of CloseSpan: a class-0 token leaves the open span in progress.
CloseSpanKeepsOpen(st) ==
    st

\* A class-0 token: the open span, if any, is finalized and cleared.
CloseSpan(st) ==
    IF st.current_span # <<>>
    THEN [spans |-> Append(st.spans, Materialize(st.current_span[1])),
          current_span |-> <<>>]
    ELSE st

\* Mutant of SpanStep: a class-1 token that starts after the open span's end
\* closes that span and opens a new one.
SpanStepSplitsAtGap(st, ast, aco, offs, probs, k) ==
    LET tok              == offs[k + 1]
        rel_start        == tok[1] - aco
        rel_end          == tok[2] - aco
        is_hallucination == TokenPred(ast, probs, k) = 1
        confidence       == IF is_hallucination THEN probs[k + 1] ELSE 0
    IN  IF Skipped(Label(ast, k), tok) THEN st
        ELSE IF is_hallucination
        THEN IF st.current_span = <<>>
             THEN [st EXCEPT !.current_span =
                       <<OpenSpan(rel_start, rel_end, confidence)>>]
             ELSE IF rel_start > st.current_span[1].end
             THEN [spans |-> Append(st.spans, Materialize(st.current_span[1])),
                   current_span |-> <<OpenSpan(rel_start, rel_end, confidence)>>]
             ELSE [st EXCEPT !.current_span =
                       <<ExtendSpan(st.current_span[1], rel_end, confidence)>>]
        ELSE CloseSpan(st)

\* Mutant of SpanStep: the zero-length test comes after the class test, so a
\* zero-length class-0 token closes the open span.
SpanStepZeroWidthCloses(st, ast, aco, offs, probs, k) ==
    LET tok              == offs[k + 1]
        rel_start        == tok[1] - aco
        rel_end          == tok[2] - aco
        is_hallucination == TokenPred(ast, probs, k) = 1
        confidence       == IF is_hallucination THEN probs[k + 1] ELSE 0
    IN  IF Label(ast, k) = -100 THEN st
        ELSE IF is_hallucination
        THEN IF tok[1] = tok[2] THEN st
             ELSE IF st.current_span = <<>>
             THEN [st EXCEPT !.current_span =
                       <<OpenSpan(rel_start, rel_end, confidence)>>]
             ELSE [st EXCEPT !.current_span =
                       <<ExtendSpan(st.current_span[1], rel_end, confidence)>>]
        ELSE CloseSpan(st)

\* One iteration of the loop over token k, as a function of the loop's state
\* st = [spans, current_span].
SpanStep(st, ast, aco, offs, probs, k) ==
    LET tok              == offs[k + 1]
        rel_start        == tok[1] - aco
        rel_end          == tok[2] - aco
        is_hallucination == TokenPred(ast, probs, k) = 1
        confidence       == IF is_hallucination THEN probs[k + 1] ELSE 0
    IN  IF Skipped(Label(ast, k), tok) THEN st
        ELSE IF is_hallucination
        THEN IF st.current_span = <<>>
             THEN [st EXCEPT !.current_span =
                       <<OpenSpan(rel_start, rel_end, confidence)>>]
             ELSE [st EXCEPT !.current_span =
                       <<ExtendSpan(st.current_span[1], rel_end, confidence)>>]
        ELSE CloseSpan(st)

\* Mutant of FinishSpans: the trailing span is put first in the result.
FinishSpansPrepends(st) ==
    IF st.current_span # <<>>
    THEN <<Materialize(st.current_span[1])>> \o st.spans
    ELSE st.spans

\* Mutant of FinishSpans: the trailing span is appended with an empty text.
FinishSpansNoText(st) ==
    IF st.current_span # <<>>
    THEN Append(st.spans, [Materialize(st.current_span[1]) EXCEPT !.text = <<>>])
    ELSE st.spans

\* After the loop: a span still in progress is appended.
FinishSpans(st) ==
    IF st.current_span # <<>>
    THEN Append(st.spans, Materialize(st.current_span[1]))
    ELSE st.spans

\* Offsets and class-1 probabilities of the tokens before the answer (the
\* prompt); the loop never reads them.
ContextOffsets == {<<0, 0>>, <<0, 1>>}

ContextProbs == {3, 9}

\* The tokenizer and the classifier produce the next token of the prompt,
\* which precedes every answer token.
TokenizeContext ==
    /\ pc = "tokenize"
    /\ Len(offsets) < MaxTokens
    /\ Len(offsets) = answer_start_token
    /\ \E tok \in ContextOffsets, p \in ContextProbs :
          /\ offsets' = Append(offsets, tok)
          /\ probabilities' = Append(probabilities, p)
    /\ answer_start_token' = answer_start_token + 1
    /\ UNCHANGED <<pc, answer_char_offset, i, spans, current_span,
                   span_tokens, open_tokens>>
    /\ UNCHANGED <<charVars, evalVars, facadeVars, scriptVars>>

\* The tokenizer and the classifier produce the next token of the answer.
TokenizeAnswer ==
    /\ pc = "tokenize"
    /\ Len(offsets) < MaxTokens
    /\ \E tok \in NextOffsets(SubSeq(offsets, answer_start_token + 1, Len(offsets))),
          p \in ProbLevels :
          /\ offsets' = Append(offsets, tok)
          /\ probabilities' = Append(probabilities, p)
    /\ UNCHANGED <<pc, answer_start_token, answer_char_offset, i, spans,
                   current_span, span_tokens, open_tokens>>
    /\ UNCHANGED <<charVars, evalVars, facadeVars, scriptVars>>

\* _predict with output_format = "spans", up to the loop.  The answer's first
\* token index comes from prepare_tokenized_input; when no answer token is
\* left in the encoding it is at or past the end of the offsets.
PredictSpans ==
    /\ pc = "tokenize"
    /\ \E ast \in IF answer_start_token = Len(offsets)
                  THEN {answer_start_token, answer_start_token + 1}
                  ELSE {answer_start_token} :
          LET aco == AnswerCharOffset(ast, offsets)
          IN  /\ answer_start_token' = ast
              /\ i' = ast
              /\ IF aco = <<>>
                 THEN pc' = "raised" /\ UNCHANGED answer_char_offset
                 ELSE pc' = "loop" /\ answer_char_offset' = aco[1]
    /\ spans' = <<>>
    /\ current_span' = <<>>
    /\ UNCHANGED <<offsets, probabilities, span_tokens, open_tokens>>
    /\ UNCHANGED <<charVars, evalVars, facadeVars, scriptVars>>

\* One iteration of "for i in range(answer_start_token, token_preds.size(0))".
\* The history follows the loop's state: a token joins open_tokens when it
\* opens or extends current_span, and open_tokens is filed under the span
\* when the span is appended to the result.
LoopBody ==
    /\ pc = "loop"
    /\ i < Len(offsets)
    /\ LET st     == SpanStep([spans |-> spans, current_span |-> current_span],
                              answer_start_token, answer_char_offset,
                              offsets, probabilities, i)
           closed == Len(st.spans) > Len(spans)
           joins  == /\ ~Skipped(Label(answer_start_token, i), offsets[i + 1])
                     /\ TokenPred(answer_start_token, probabilities, i) = 1
                     /\ st.current_span # <<>>
           kept   == IF closed \/ current_span = <<>> \/ st.current_span = <<>>
                     THEN {} ELSE open_tokens
       IN  /\ spans' = st.spans
           /\ current_span' = st.current_span
           /\ span_tokens' = IF closed THEN Append(span_tokens, open_tokens)
                             ELSE span_tokens
           /\ open_tokens' = IF joins THEN kept \cup {i} ELSE kept
    /\ i' = i + 1
    /\ UNCHANGED <<pc, offsets, probabilities, answer_start_token,
                   answer_char_offset>>
    /\ UNCHANGED <<charVars, evalVars, facadeVars, scriptVars>>

\* The loop has ended: append any span still in progress and return.
ReturnSpans ==
    /\ pc = "loop"
    /\ i >= Len(offsets)
    /\ spans' = FinishSpans([spans |-> spans, current_span |-> current_span])
    /\ current_span' = IF current_span # <<>>
                       THEN <<Materialize(current_span[1])>> ELSE <<>>
    /\ span_tokens' = IF Len(spans') > Len(spans)
                      THEN Append(span_tokens, open_tokens)
                      ELSE span_tokens
    /\ open_tokens' = {}
    /\ pc' = "done"
    /\ UNCHANGED <<offsets, probabilities, answer_start_token,
                   answer_char_offset, i>>
    /\ UNCHANGED <<charVars, evalVars, facadeVars, scriptVars>>

SpanInit ==
    /\ pc = "tokenize"
    /\ offsets = <<>>
    /\ probabilities = <<>>
    /\ answer_start_token = 0
    /\ answer_char_offset = 0
    /\ i = 0
    /\ spans = <<>>
    /\ current_span = <<>>
    /\ span_tokens = <<>>
    /\ open_tokens = {}
    /\ char_pc = "idle"
    /\ sample_index = 0
    /\ predicted_spans = <<>>
    /\ gold_spans = <<>>
    /\ total_overlap = 0
    /\ total_predicted = 0
    /\ total_gold = 0
    /\ metrics = <<>>
    /\ swapped = <<>>
    /\ exact_corpus = TRUE
    /\ disjoint_corpus = TRUE
    /\ EvalIdle
    /\ FacadeIdle
    /\ ScriptIdle

SpanNext ==
    \/ TokenizeContext
    \/ TokenizeAnswer
    \/ PredictSpans
    \/ LoopBody
    \/ ReturnSpans

SpanSpec == SpanInit /\ [][SpanNext]_vars


\* ------------------------------------------------------- char-level scorer
\* The span dicts ("start", "end") a detector or an annotator may give: two
\* that overlap in part, one inside each of them, two that are disjoint.
SpanDicts ==
    {[start |-> 0, end |-> 5], [start |-> 2, end |-> 8],
     [start |-> 0, end |-> 2], [start |-> 5, end |-> 8]}

SpanBefore(x, y) ==
    x.start < y.start \/ (x.start = y.start /\ x.end < y.end)

\* The span lists a sample may carry: at most MaxSpans different spans,
\* listed by start and then by end.
SpanLists ==
    UNION {{l \in [1 .. n -> SpanDicts] :
               \A k \in 1 .. n - 1 : SpanBefore(l[k], l[k + 1])} : n \in 0 .. MaxSpans}

\* A metric value is an exact fraction <<numerator, denominator>> in lowest
\* terms with a positive denominator; the program holds its float.
RECURSIVE Gcd(_, _)
Gcd(a, b) ==
    IF b = 0 THEN a ELSE Gcd(b, a % b)

Abs(a) ==
    IF a < 0 THEN -a ELSE a

Frac(n, d) ==
    LET g == Gcd(Abs(n), Abs(d))
    IN  IF d < 0 THEN <<(-n) \div g, (-d) \div g>> ELSE <<n \div g, d \div g>>

Zero == Frac(0, 1)

FracAdd(x, y) ==
    Frac(x[1] * y[2] + y[1] * x[2], x[2] * y[2])

FracMul(x, y) ==
    Frac(x[1] * y[1], x[2] * y[2])

\* x / y of Python: <<quotient>>, or <<>> for ZeroDivisionError.
TrueDiv(x, y) ==
    IF y[1] = 0 THEN <<>> ELSE <<Frac(x[1] * y[2], x[2] * y[1])>>

\* No two spans of the list share a character.
PairwiseDisjoint(list) ==
    \A j, k \in 1 .. Len(list) :
        j < k => (list[j].end <= list[k].start \/ list[k].end <= list[j].start)

\* Mutant of SampleLength: a span's end is taken as its last character.
RECURSIVE SampleLengthInclusive(_)
SampleLengthInclusive(list) ==
    IF list = <<>> THEN 0
    ELSE (Head(list).end - Head(list).start + 1) + SampleLengthInclusive(Tail(list))

\* sum(span["end"] - span["start"] for span in list)
RECURSIVE SampleLength(_)
SampleLength(list) ==
    IF list = <<>> THEN 0
    ELSE (Head(list).end - Head(list).start) + SampleLength(Tail(list))

\* Mutant of OverlapWithGolds: an overlap is measured up to and including
\* its last character.
RECURSIVE OverlapWithGoldsInclusive(_, _)
OverlapWithGoldsInclusive(pred, golds) ==
    IF golds = <<>> THEN 0
    ELSE LET gold          == Head(golds)
             overlap_start == Max(pred.start, gold.start)
             overlap_end   == IF pred.end <= gold.end THEN pred.end ELSE gold.end
         IN  (IF overlap_end > overlap_start THEN overlap_end - overlap_start + 1
              ELSE 0)
                 + OverlapWithGoldsInclusive(pred, Tail(golds))

\* The inner loop "for gold in gold_spans" for one predicted span.
RECURSIVE OverlapWithGolds(_, _)
OverlapWithGolds(pred, golds) ==
    IF golds = <<>> THEN 0
    ELSE LET gold          == Head(golds)
             overlap_start == Max(pred.start, gold.start)
             overlap_end   == IF pred.end <= gold.end THEN pred.end ELSE gold.end
         IN  (IF overlap_end > overlap_start THEN overlap_end - overlap_start ELSE 0)
                 + OverlapWithGolds(pred, Tail(golds))

\* Mutant of SampleOverlap: a predicted span is matched with the first gold
\* span only.
RECURSIVE SampleOverlapFirstGold(_, _)
SampleOverlapFirstGold(preds, golds) ==
    IF preds = <<>> THEN 0
    ELSE OverlapWithGolds(Head(preds),
                          IF golds = <<>> THEN <<>> ELSE <<Head(golds)>>)
             + SampleOverlapFirstGold(Tail(preds), golds)

\* Mutant of SampleOverlap: the overlap of a pair is measured from the
\* predicted span's start, not from the later of the two starts.
RECURSIVE OverlapFromPredStart(_, _)
OverlapFromPredStart(pred, golds) ==
    IF golds = <<>> THEN 0
    ELSE LET gold        == Head(golds)
             overlap_end == IF pred.end <= gold.end THEN pred.end ELSE gold.end
         IN  (IF overlap_end > pred.start THEN overlap_end - pred.start ELSE 0)
                 + OverlapFromPredStart(pred, Tail(golds))

RECURSIVE SampleOverlapFromPredStart(_, _)
SampleOverlapFromPredStart(preds, golds) ==
    IF preds = <<>> THEN 0
    ELSE OverlapFromPredStart(Head(preds), golds)
             + SampleOverlapFromPredStart(Tail(preds), golds)

\* The outer loop "for pred in predicted_spans": sample_overlap.
RECURSIVE SampleOverlap(_, _)
SampleOverlap(preds, golds) ==
    IF preds = <<>> THEN 0
    ELSE OverlapWithGolds(Head(preds), golds) + SampleOverlap(Tail(preds), golds)

\* Mutant of CharPrecision: the division is not guarded.
CharPrecisionUnguarded(overlap, predicted) ==
    TrueDiv(Frac(overlap, 1), Frac(predicted, 1))

\* precision = total_overlap / total_predicted if total_predicted > 0 else 0
CharPrecision(overlap, predicted) ==
    IF predicted > 0 THEN TrueDiv(Frac(overlap, 1), Frac(predicted, 1)) ELSE <<Zero>>

\* recall = total_overlap / total_gold if total_gold > 0 else 0
CharRecall(overlap, gold) ==
    IF gold > 0 THEN TrueDiv(Frac(overlap, 1), Frac(gold, 1)) ELSE <<Zero>>

\* f1 = 2 * precision * recall / (precision + recall) if (precision + recall) > 0 else 0
CharF1(precision, recall) ==
    IF FracAdd(precision, recall)[1] > 0
    THEN TrueDiv(FracMul(FracMul(Frac(2, 1), precision), recall),
                 FracAdd(precision, recall))
    ELSE <<Zero>>

\* The three lines after the loop and the returned dict; <<>> when one of
\* the divisions raises.
CharMetrics(overlap, predicted, gold) ==
    LET precision == CharPrecision(overlap, predicted)
        recall    == CharRecall(overlap, gold)
    IN  IF precision = <<>> \/ recall = <<>> THEN <<>>
        ELSE LET f1 == CharF1(precision[1], recall[1])
             IN  IF f1 = <<>> THEN <<>>
                 ELSE <<[precision |-> precision[1], recall |-> recall[1],
                         f1 |-> f1[1]]>>

\* The loop takes the next sample and the detector returns its spans.
PredictPrompt ==
    /\ char_pc = "fetch"
    /\ sample_index < MaxSamples
    /\ \E preds \in SpanLists, golds \in SpanLists :
          /\ predicted_spans' = preds
          /\ gold_spans' = golds
    /\ sample_index' = sample_index + 1
    /\ char_pc' = "fold"
    /\ UNCHANGED <<total_overlap, total_predicted, total_gold, metrics, swapped,
                   exact_corpus, disjoint_corpus>>
    /\ UNCHANGED <<spanVars, evalVars, facadeVars, scriptVars>>

\* The detector raises on the next sample: nothing catches it.
PredictPromptRaises ==
    /\ char_pc = "fetch"
    /\ sample_index < MaxSamples
    /\ sample_index' = sample_index + 1
    /\ char_pc' = "raised"
    /\ UNCHANGED <<predicted_spans, gold_spans, total_overlap, total_predicted,
                   total_gold, metrics, swapped, exact_corpus, disjoint_corpus>>
    /\ UNCHANGED <<spanVars, evalVars, facadeVars, scriptVars>>

\* The rest of the loop body: the sample is folded into the three totals.
\* The sample's lists are dead afterwards and are dropped from the state.
FoldSample ==
    /\ char_pc = "fold"
    /\ total_predicted' = total_predicted + SampleLength(predicted_spans)
    /\ total_gold' = total_gold + SampleLength(gold_spans)
    /\ total_overlap' = total_overlap + SampleOverlap(predicted_spans, gold_spans)
    /\ swapped' = [swapped EXCEPT
           !.total_predicted = @ + SampleLength(gold_spans),
           !.total_gold = @ + SampleLength(predicted_spans),
           !.total_overlap = @ + SampleOverlap(gold_spans, predicted_spans)]
    /\ disjoint_corpus' = (/\ disjoint_corpus
                           /\ PairwiseDisjoint(predicted_spans)
                           /\ PairwiseDisjoint(gold_spans))
    /\ exact_corpus' = (/\ exact_corpus
                        /\ predicted_spans = gold_spans
                        /\ PairwiseDisjoint(gold_spans))
    /\ predicted_spans' = <<>>
    /\ gold_spans' = <<>>
    /\ char_pc' = "fetch"
    /\ UNCHANGED <<sample_index, metrics>>
    /\ UNCHANGED <<spanVars, evalVars, facadeVars, scriptVars>>

\* The corpus is exhausted: precision, recall and F1 are computed and
\* returned.
CharFinalize ==
    /\ char_pc = "fetch"
    /\ metrics' = CharMetrics(total_overlap, total_predicted, total_gold)
    /\ swapped' = [swapped EXCEPT !.metrics =
           CharMetrics(swapped.total_overlap, swapped.total_predicted,
                       swapped.total_gold)]
    /\ char_pc' = IF metrics' = <<>> THEN "ZeroDivisionError" ELSE "done"
    /\ UNCHANGED <<sample_index, predicted_spans, gold_spans, total_overlap,
                   total_predicted, total_gold, exact_corpus, disjoint_corpus>>
    /\ UNCHANGED <<spanVars, evalVars, facadeVars, scriptVars>>

CharInit ==
    /\ char_pc = "fetch"
    /\ sample_index = 0
    /\ predicted_spans = <<>>
    /\ gold_spans = <<>>
    /\ total_overlap = 0
    /\ total_predicted = 0
    /\ total_gold = 0
    /\ metrics = <<>>
    /\ swapped = [total_overlap |-> 0, total_predicted |-> 0, total_gold |-> 0,
                  metrics |-> <<>>]
    /\ exact_corpus = TRUE
    /\ disjoint_corpus = TRUE
    /\ pc = "idle"
    /\ offsets = <<>>
    /\ probabilities = <<>>
    /\ answer_start_token = 0
    /\ answer_char_offset = 0
    /\ i = 0
    /\ spans = <<>>
    /\ current_span = <<>>
    /\ span_tokens = <<>>
    /\ open_tokens = {}
    /\ EvalIdle
    /\ FacadeIdle
    /\ ScriptIdle

CharNext ==
    \/ PredictPrompt
    \/ PredictPromptRaises
    \/ FoldSample
    \/ CharFinalize

CharSpec == CharInit /\ [][CharNext]_vars

\* ------------------------------------------------- span builder: the claims
\* The whole loop from token k on and the final append, as one function.
RECURSIVE SpanLoop(_, _, _, _, _, _)
SpanLoop(st, ast, aco, offs, probs, k) ==
    IF k >= Len(offs) THEN FinishSpans(st)
    ELSE SpanLoop(SpanStep(st, ast, aco, offs, probs, k), ast, aco, offs, probs, k + 1)

\* The tokens the span builder is about: answer tokens of non-zero length.
EligibleTokens ==
    {k \in 0 .. Len(offsets) - 1 :
        k >= answer_start_token /\ offsets[k + 1][1] # offsets[k + 1][2]}

\* The classifier's predicted class of token k is 1.
ClassOne(k) ==
    2 * probabilities[k + 1] > 10

RelStart(k) ==
    offsets[k + 1][1] - answer_char_offset

RelEnd(k) ==
    offsets[k + 1][2] - answer_char_offset

\* j and k are eligible, j before k, with no eligible token between them.
NextEligible(j, k) ==
    /\ j \in EligibleTokens
    /\ k \in EligibleTokens
    /\ j < k
    /\ \A m \in EligibleTokens : ~(j < m /\ m < k)

\* The first tokens and the last tokens of the maximal class-1 runs.
RunFirsts ==
    {k \in EligibleTokens :
        ClassOne(k) /\ \A j \in EligibleTokens : NextEligible(j, k) => ~ClassOne(j)}

RunLasts ==
    {k \in EligibleTokens :
        ClassOne(k) /\ \A m \in EligibleTokens : NextEligible(k, m) => ~ClassOne(m)}

\* The run of first token f: the eligible tokens from f to the nearest last
\* token of a run.
RunOf(f) ==
    LET l == CHOOSE x \in RunLasts : x >= f /\ \A y \in RunLasts : y >= f => x <= y
    IN  {k \in EligibleTokens : f <= k /\ k <= l}

SetMax(S) ==
    CHOOSE x \in S : \A y \in S : y <= x

SetMin(S) ==
    CHOOSE x \in S : \A y \in S : x <= y

\* No two eligible tokens overlap: each ends at or before the next begins.
TokensDoNotOverlap ==
    \A j, k \in EligibleTokens : j < k => offsets[j + 1][2] <= offsets[k + 1][1]

SpansInStartOrder ==
    \A a \in 1 .. Len(spans) - 1 : spans[a].start <= spans[a + 1].start

SpansDoNotOverlap ==
    \A a \in 1 .. Len(spans) - 1 : spans[a].end <= spans[a + 1].start

\* C1, as stated: for any token stream the returned spans satisfy
\* spans[i].end <= spans[i+1].start and are in non-decreasing start order.
C1_AnyStreamOrderedDisjoint ==
    pc = "done" => SpansInStartOrder /\ SpansDoNotOverlap

\* C1, amended: the returned spans are in non-decreasing start order, and
\* when no two eligible tokens overlap they satisfy
\* spans[i].end <= spans[i+1].start.
C1_OrderedAndDisjointIfTokensAre ==
    pc = "done" =>
        /\ SpansInStartOrder
        /\ TokensDoNotOverlap => SpansDoNotOverlap

C1_Witness ==
    /\ pc = "done"
    /\ Len(spans) >= 2
    /\ TokensDoNotOverlap
    /\ spans[1].end < spans[2].start

\* C2: a class-0 eligible token between two class-1 tokens separates them:
\* the two tokens are merged into two different spans, the earlier span
\* first, and no span holds both.
C2_ClassZeroSeparatesRuns ==
    pc = "done" =>
        /\ Len(span_tokens) = Len(spans)
        /\ \A a, j, b \in EligibleTokens :
              (a < j /\ j < b /\ ClassOne(a) /\ ~ClassOne(j) /\ ClassOne(b)) =>
                  /\ \E x, y \in 1 .. Len(spans) :
                        x < y /\ a \in span_tokens[x] /\ b \in span_tokens[y]
                  /\ \A z \in 1 .. Len(spans) :
                        ~(a \in span_tokens[z] /\ b \in span_tokens[z])

C2_Witness ==
    /\ pc = "done"
    /\ Len(spans) = 2
    /\ \E a, j, b \in EligibleTokens :
          a < j /\ j < b /\ ClassOne(a) /\ ~ClassOne(j) /\ ClassOne(b)

\* C3: the confidence of every returned span is the largest class-1
\* probability among the tokens merged into it, and of no other token.
C3_ConfidenceIsMaxOfMerged ==
    pc = "done" =>
        /\ Len(span_tokens) = Len(spans)
        /\ \A x \in 1 .. Len(spans) :
              /\ span_tokens[x] # {}
              /\ spans[x].confidence =
                     SetMax({probabilities[k + 1] : k \in span_tokens[x]})

\* The run 0.6, 0.9, 0.7 has been merged into one span of confidence 0.9.
C3_Witness ==
    /\ pc = "done"
    /\ probabilities = <<6, 9, 7>>
    /\ Len(spans) = 1
    /\ span_tokens[1] = {0, 1, 2}
    /\ spans[1].confidence = 9

\* C4: the returned spans are exactly the maximal runs of class-1 eligible
\* tokens, in order: span x was merged from the x-th run, starts at the
\* relative start of the run's first token and ends at the relative end of
\* its last token, whatever the character gaps inside the run.
C4_SpansAreMaximalRuns ==
    pc = "done" =>
        /\ Len(spans) = Cardinality(RunFirsts)
        /\ Len(span_tokens) = Len(spans)
        /\ \A x \in 1 .. Len(spans) :
              /\ span_tokens[x] # {}
              /\ SetMin(span_tokens[x]) \in RunFirsts
              /\ span_tokens[x] = RunOf(SetMin(span_tokens[x]))
              /\ Cardinality({f \in RunFirsts : f < SetMin(span_tokens[x])}) = x - 1
              /\ spans[x].start = RelStart(SetMin(span_tokens[x]))
              /\ spans[x].end = RelEnd(SetMax(span_tokens[x]))

\* Two class-1 tokens with a character gap between them were merged.
C4_Witness ==
    /\ pc = "done"
    /\ \E x \in 1 .. Len(spans) : \E j, k \in span_tokens[x] :
          NextEligible(j, k) /\ offsets[j + 1][2] < offsets[k + 1][1]

\* The characters of the answer at positions a .. b - 1.
CharsAt(a, b) ==
    [k \in 1 .. (b - a) |-> answer[a + k]]

\* C5: every returned span has 0 <= start < end <= len(answer) and its text
\* is the characters of the answer from start up to end, whether a class-0
\* token closed it or it was still open when the stream ended.
C5_SpanRangeAndText ==
    pc = "done" =>
        \A x \in 1 .. Len(spans) :
            /\ 0 <= spans[x].start
            /\ spans[x].start < spans[x].end
            /\ spans[x].end <= Len(answer)
            /\ spans[x].text = CharsAt(spans[x].start, spans[x].end)

\* One span was closed by a class-0 token and one was open at the end.
C5_Witness ==
    /\ pc = "done"
    /\ Len(spans) = 2
    /\ current_span # <<>>
    /\ spans[2] = current_span[1]
    /\ spans[1].text # <<>>
    /\ spans[2].text # <<>>

\* The stream with the context tokens and the zero-length tokens deleted.
RECURSIVE KeepEligible(_, _)
KeepEligible(seq, k) ==
    IF k >= Len(seq) THEN <<>>
    ELSE IF k \in EligibleTokens THEN <<seq[k + 1]>> \o KeepEligible(seq, k + 1)
    ELSE KeepEligible(seq, k + 1)

\* C6: context tokens and zero-length tokens are skipped: the spans returned
\* are those the loop returns for the stream with these tokens deleted (the
\* answer's character offset being the same).
C6_SkippedTokensChangeNothing ==
    pc = "done" =>
        spans = SpanLoop([spans |-> <<>>, current_span |-> <<>>], 0,
                         answer_char_offset, KeepEligible(offsets, 0),
                         KeepEligible(probabilities, 0), 0)

\* A zero-length class-0 token lies inside a run that was merged into one
\* span.
C6_Witness ==
    /\ pc = "done"
    /\ Len(spans) = 1
    /\ \E k \in 0 .. Len(offsets) - 1 :
          /\ k > SetMin(span_tokens[1])
          /\ k < SetMax(span_tokens[1])
          /\ offsets[k + 1][1] = offsets[k + 1][2]
          /\ ~ClassOne(k)

\* C7: with no eligible class-1 token (every token ignored or of zero
\* length, none of class 1, or the answer starting at or past the end of the
\* offsets) the result is the empty list, and _predict never raises.
C7_NoEligibleTokenNoSpan ==
    /\ pc = "done" /\ (\A k \in EligibleTokens : ~ClassOne(k)) => spans = <<>>
    /\ pc # "raised"

\* The answer starts past the end of a non-empty stream; nothing is returned.
C7_Witness ==
    /\ pc = "done"
    /\ Len(offsets) > 0
    /\ answer_start_token > Len(offsets)
    /\ spans = <<>>


\* ------------------------------------------- char-level scorer: the claims
\* max(0, min(pred.end, gold.end) - max(pred.start, gold.start))
PairOverlap(pred, gold) ==
    LET lo == IF pred.start >= gold.start THEN pred.start ELSE gold.start
        hi == IF pred.end <= gold.end THEN pred.end ELSE gold.end
    IN  IF hi - lo > 0 THEN hi - lo ELSE 0

\* The sum of PairOverlap over the index pairs in `pairs`.
RECURSIVE SumPairOverlaps(_, _, _)
SumPairOverlaps(preds, golds, pairs) ==
    IF pairs = {} THEN 0
    ELSE LET x == CHOOSE y \in pairs : TRUE
         IN  PairOverlap(preds[x[1]], golds[x[2]])
                 + SumPairOverlaps(preds, golds, pairs \ {x})

\* The sum of end - start over the indices in `ks`.
RECURSIVE SumLengths(_, _)
SumLengths(list, ks) ==
    IF ks = {} THEN 0
    ELSE LET k == CHOOSE y \in ks : TRUE
         IN  (list[k].end - list[k].start) + SumLengths(list, ks \ {k})

\* C8: folding a sample adds to total_overlap the sum over every
\* (predicted, gold) pair of max(0, min(ends) - max(starts)), nothing being
\* de-duplicated, and adds to total_predicted and to total_gold the summed
\* lengths of that side's spans alone.
C8_FoldAddsPairwiseOverlap ==
    [][char_pc = "fold" =>
          /\ total_overlap' = total_overlap +
                 SumPairOverlaps(predicted_spans, gold_spans,
                     (1 .. Len(predicted_spans)) \X (1 .. Len(gold_spans)))
          /\ total_predicted' = total_predicted +
                 SumLengths(predicted_spans, 1 .. Len(predicted_spans))
          /\ total_gold' = total_gold +
                 SumLengths(gold_spans, 1 .. Len(gold_spans))]_vars

\* More overlap than predicted characters: characters were counted twice.
C8_Witness ==
    /\ char_pc = "fetch"
    /\ sample_index = 1
    /\ total_overlap > total_predicted
    /\ total_predicted > 0

\* C9: the run never divides by zero; precision is 0 when total_predicted
\* is 0 and total_overlap / total_predicted otherwise, recall is 0 when
\* total_gold is 0 and total_overlap / total_gold otherwise, and F1 is 0
\* when precision + recall is 0.
C9_ZeroDivisionPolicy ==
    /\ char_pc # "ZeroDivisionError"
    /\ char_pc = "done" =>
          /\ metrics # <<>>
          /\ total_predicted = 0 => metrics[1].precision = Zero
          /\ total_predicted > 0 =>
                 metrics[1].precision = Frac(total_overlap, total_predicted)
          /\ total_gold = 0 => metrics[1].recall = Zero
          /\ total_gold > 0 => metrics[1].recall = Frac(total_overlap, total_gold)
          /\ FracAdd(metrics[1].precision, metrics[1].recall) = Zero =>
                 metrics[1].f1 = Zero

\* A corpus with gold spans and no predicted span has been scored.
C9_Witness ==
    /\ char_pc = "done"
    /\ sample_index = MaxSamples
    /\ total_predicted = 0
    /\ total_gold > 0
    /\ metrics[1].precision = Zero
    /\ metrics[1].f1 = Zero

\* C10: the run on the corpus with every sample's predicted and gold lists
\* exchanged has the same total_overlap and the same F1, and its precision
\* and recall (total_predicted and total_gold) are those of this run
\* exchanged; predicted = [(0,5)], gold = [(2,8)] gives overlap 3,
\* predicted 5, gold 6, precision 3/5 and recall 3/6.
C10_SwapExchangesPrecisionAndRecall ==
    /\ [](/\ char_pc \in {"fetch", "fold", "done"} =>
                /\ swapped.total_overlap = total_overlap
                /\ swapped.total_predicted = total_gold
                /\ swapped.total_gold = total_predicted
          /\ char_pc = "done" =>
                /\ swapped.metrics[1].f1 = metrics[1].f1
                /\ swapped.metrics[1].precision = metrics[1].recall
                /\ swapped.metrics[1].recall = metrics[1].precision
          /\ (/\ char_pc = "done"
              /\ sample_index = 1
              /\ <<total_overlap, total_predicted, total_gold>> = <<3, 5, 6>>) =>
                /\ metrics[1].precision = <<3, 5>>
                /\ metrics[1].recall = <<1, 2>>
                /\ metrics[1].f1 = <<6, 11>>)
    /\ [][(/\ char_pc = "fold"
           /\ sample_index = 1
           /\ predicted_spans = <<[start |-> 0, end |-> 5]>>
           /\ gold_spans = <<[start |-> 2, end |-> 8]>>) =>
              <<total_overlap', total_predicted', total_gold'>> = <<3, 5, 6>>]_vars

\* The corpus of the one sample predicted (0,5), gold (2,8) has been scored.
C10_Witness ==
    /\ char_pc = "done"
    /\ sample_index = 1
    /\ <<total_overlap, total_predicted, total_gold>> = <<3, 5, 6>>
    /\ metrics[1].precision # metrics[1].recall
    /\ swapped.metrics[1].precision = <<1, 2>>

\* C11: folding a sample with no predicted and no gold span leaves the three
\* totals as they were; and a corpus in which every sample's predicted spans
\* equal its gold spans, pairwise disjoint, with at least one span overall,
\* finalizes to precision = recall = F1 = 1.
C11_EmptySampleAndExactCorpus ==
    /\ [][(/\ char_pc = "fold"
           /\ predicted_spans = <<>>
           /\ gold_spans = <<>>) =>
              UNCHANGED <<total_overlap, total_predicted, total_gold>>]_vars
    /\ [](/\ (exact_corpus /\ char_pc = "fetch") =>
                /\ total_overlap = total_gold
                /\ total_predicted = total_gold
          /\ (exact_corpus /\ char_pc = "done" /\ total_gold > 0) =>
                /\ metrics[1].precision = Frac(1, 1)
                /\ metrics[1].recall = Frac(1, 1)
                /\ metrics[1].f1 = Frac(1, 1))

\* Two samples were scored, every one predicted exactly as annotated; the
\* two characters of gold text are one span (0,2), so the other sample had
\* no span on either side.
C11_Witness ==
    /\ char_pc = "done"
    /\ sample_index = 2
    /\ exact_corpus
    /\ total_gold = 2
    /\ metrics[1].f1 = Frac(1, 1)


\* ------------------------------------------- classification orchestrators
Orchestrators ==
    {"evaluate_model", "evaluate_model_example_level",
     "evaluate_detector_example_level", "evaluate_detector_example_level_batch",
     "evaluate_sentence_model"}

\* The detector classes: the facade of inference.py, and a class of the
\* caller's that also has a predict_prompt_batch method returning one span
\* list per prompt.
Detectors == {"HallucinationDetector", "BatchDetector"}

\* The elements of a list.
Range(list) ==
    {list[k] : k \in 1 .. Len(list)}

\* The number of positions at which y_true is a and y_pred is b.
CountPairs(y_true, y_pred, a, b) ==
    Cardinality({k \in 1 .. Len(y_true) : y_true[k] = a /\ y_pred[k] = b})

\* The number of positions at which the list is a.
CountOf(list, a) ==
    Cardinality({k \in 1 .. Len(list) : list[k] = a})

\* A float that is not a number, written as the fraction 0/0.
NaN == <<0, 0>>

\* Mutant of PrfDivide: a zero denominator gives 0/0 as numpy's division does.
PrfDivideNaN(numerator, denominator, zero_division) ==
    IF denominator = 0 THEN NaN ELSE Frac(numerator, denominator)

\* sklearn's division of the counts: a zero denominator gives the
\* zero_division value, which is 0.0 for zero_division=0 and, with a warning,
\* for the default "warn".
PrfDivide(numerator, denominator, zero_division) ==
    IF denominator = 0
    THEN (IF zero_division = "warn" THEN Zero ELSE Frac(zero_division[1], 1))
    ELSE Frac(numerator, denominator)

\* precision_recall_fscore_support(y_true, y_pred, labels=[0, 1],
\* average=None, zero_division=...): the entries of class c.
ClassScores(y_true, y_pred, c, zero_division) ==
    LET tp_sum   == CountPairs(y_true, y_pred, c, c)
        pred_sum == CountOf(y_pred, c)
        true_sum == CountOf(y_true, c)
    IN  [precision |-> PrfDivide(tp_sum, pred_sum, zero_division),
         recall    |-> PrfDivide(tp_sum, true_sum, zero_division),
         f1        |-> PrfDivide(2 * tp_sum, true_sum + pred_sum, zero_division)]

\* auc(*roc_curve(y_true, y_score)[:2]): <<>> for the ValueError roc_curve
\* raises on an empty y_true, not a number (with a warning) when y_true
\* holds one class only, and otherwise the area under the curve, which is
\* the share of (positive, negative) pairs the score orders rightly, a tie
\* counting one half.
Auroc(y_true, y_score) ==
    LET pos   == {k \in 1 .. Len(y_true) : y_true[k] = 1}
        neg   == {k \in 1 .. Len(y_true) : y_true[k] = 0}
        right == Cardinality({x \in pos \X neg : y_score[x[1]] > y_score[x[2]]})
        ties  == Cardinality({x \in pos \X neg : y_score[x[1]] = y_score[x[2]]})
    IN  IF y_true = <<>> THEN <<>>
        ELSE IF pos = {} \/ neg = {} THEN <<NaN>>
        ELSE <<Frac(2 * right + ties, 2 * Cardinality(pos) * Cardinality(neg))>>

\* classification_report(y_true, y_pred, target_names=["Supported",
\* "Hallucinated"], ...) is given no labels argument: it raises ValueError
\* unless exactly two classes occur in y_true and y_pred together.
ReportRaises(y_true, y_pred) ==
    Cardinality(Range(y_true) \cup Range(y_pred)) # 2

\* The results dict built after the loop: <<>> when roc_curve raises.
MetricsDict(y_true, y_pred, y_score, zero_division) ==
    LET auroc == Auroc(y_true, y_score)
    IN  IF auroc = <<>> THEN <<>>
        ELSE <<[supported      |-> ClassScores(y_true, y_pred, 0, zero_division),
                hallucinated   |-> ClassScores(y_true, y_pred, 1, zero_division),
                auroc          |-> auroc[1],
                classification_report |-> FALSE]>>

\* torch.argmax over the two class probabilities (1 - p, p), p in tenths.
Argmax(p) ==
    IF p > 10 - p THEN 1 ELSE 0

\* What a token position of the data loader carries: its label, -100 where
\* the position is ignored, and the model's class-1 probability.
TokenLabels == {-100, 0, 1}

RowProbs == {3, 9}

\* One example of a batch of evaluate_model_example_level: a row of
\* batch["labels"] together with the same row of probs.
ExampleRows ==
    UNION {[1 .. n -> [label : TokenLabels, prob : RowProbs]] : n \in 1 .. MaxPositions}

\* valid_mask = sample_labels != -100
ValidMask(row) ==
    {k \in 1 .. Len(row) : row[k].label # -100}

\* Mutant of ExampleResult: the predictions are not masked.
ExampleResultUnmaskedPreds(row) ==
    IF ValidMask(row) = {} THEN [label |-> 0, pred |-> 0, prob |-> 0]
    ELSE [label |-> IF \E k \in ValidMask(row) : row[k].label = 1 THEN 1 ELSE 0,
          pred  |-> IF \E k \in 1 .. Len(row) : Argmax(row[k].prob) = 1 THEN 1 ELSE 0,
          prob  |-> SetMax({row[k].prob : k \in ValidMask(row)})]

\* true_example_label, pred_example_label and max_prob of one example.
ExampleResult(row) ==
    IF ValidMask(row) = {} THEN [label |-> 0, pred |-> 0, prob |-> 0]
    ELSE [label |-> IF \E k \in ValidMask(row) : row[k].label = 1 THEN 1 ELSE 0,
          pred  |-> IF \E k \in ValidMask(row) : Argmax(row[k].prob) = 1 THEN 1 ELSE 0,
          prob  |-> SetMax({row[k].prob : k \in ValidMask(row)})]

\* model.eval() and the creation of the empty lists.
Begin ==
    /\ eval_pc = "init"
    /\ example_labels' = <<>>
    /\ example_preds' = <<>>
    /\ example_probs' = <<>>
    /\ step_count' = 0
    /\ eval_pc' = "loop"
    /\ UNCHANGED <<orchestrator, detector, n_samples, n_labels, batch_size, batch_start,
                   batch_len, batch_i, sample, doc_count, results, folded,
                   one_at_a_time>>
    /\ UNCHANGED <<spanVars, charVars, facadeVars, scriptVars>>

\* evaluate_model_example_level: the loader gives the next batch and the
\* model its logits.
ExampleLevelBatch ==
    /\ orchestrator = "evaluate_model_example_level"
    /\ eval_pc = "loop"
    /\ \E size \in 1 .. MaxBatchLen :
          /\ Len(example_labels) + size <= MaxItems
          /\ batch_len' = size
    /\ batch_i' = 0
    /\ eval_pc' = "examples"
    /\ UNCHANGED <<orchestrator, detector, n_samples, n_labels, batch_size, batch_start,
                   sample, example_labels, example_preds, example_probs,
                   step_count, doc_count, results, folded, one_at_a_time>>
    /\ UNCHANGED <<spanVars, charVars, facadeVars, scriptVars>>

\* The model raises on a batch: evaluate_model and
\* evaluate_model_example_level catch nothing.
ModelRaises ==
    /\ orchestrator \in {"evaluate_model", "evaluate_model_example_level"}
    /\ eval_pc = "loop"
    /\ eval_pc' = "raised"
    /\ UNCHANGED <<orchestrator, detector, n_samples, n_labels, batch_size, batch_start,
                   batch_len, batch_i, sample, example_labels, example_preds,
                   example_probs, step_count, doc_count, results, folded,
                   one_at_a_time>>
    /\ UNCHANGED <<spanVars, charVars, facadeVars, scriptVars>>

\* The inner loop reads row i of the batch.
ExampleLevelRead ==
    /\ orchestrator = "evaluate_model_example_level"
    /\ eval_pc = "examples"
    /\ \E row \in ExampleRows : sample' = <<row>>
    /\ eval_pc' = "fold"
    /\ UNCHANGED <<orchestrator, detector, n_samples, n_labels, batch_size, batch_start,
                   batch_len, batch_i, example_labels, example_preds,
                   example_probs, step_count, doc_count, results, folded,
                   one_at_a_time>>
    /\ UNCHANGED <<spanVars, charVars, facadeVars, scriptVars>>

\* The rest of the inner loop's body: the example's label, prediction and
\* score are derived and appended.
ExampleLevelFold ==
    /\ orchestrator = "evaluate_model_example_level"
    /\ eval_pc = "fold"
    /\ LET r == ExampleResult(sample[1])
       IN  /\ example_labels' = Append(example_labels, r.label)
           /\ example_preds' = Append(example_preds, r.pred)
           /\ example_probs' = Append(example_probs, r.prob)
    /\ folded' = folded + 1
    /\ sample' = <<>>
    /\ batch_i' = IF batch_i + 1 < batch_len THEN batch_i + 1 ELSE 0
    /\ batch_len' = IF batch_i + 1 < batch_len THEN batch_len ELSE 0
    /\ eval_pc' = IF batch_i + 1 < batch_len THEN "examples" ELSE "loop"
    /\ UNCHANGED <<orchestrator, detector, n_samples, n_labels, batch_size, batch_start,
                   step_count, doc_count, results, one_at_a_time>>
    /\ UNCHANGED <<spanVars, charVars, facadeVars, scriptVars>>

\* Mutant of ExampleLevelMetrics: the metrics are computed inside the loop,
\* which then goes on.
ExampleLevelMetricsInLoop ==
    /\ orchestrator = "evaluate_model_example_level"
    /\ eval_pc = "loop"
    /\ results' = MetricsDict(example_labels, example_preds, example_probs, <<0>>)
    /\ eval_pc' = IF results' = <<>> THEN "ValueError" ELSE "loop"
    /\ UNCHANGED <<orchestrator, detector, n_samples, n_labels, batch_size, batch_start,
                   batch_len, batch_i, sample, example_labels, example_preds,
                   example_probs, step_count, doc_count, folded, one_at_a_time>>
    /\ UNCHANGED <<spanVars, charVars, facadeVars, scriptVars>>

\* The loader is exhausted: the metrics are computed.
ExampleLevelMetrics ==
    /\ orchestrator = "evaluate_model_example_level"
    /\ eval_pc = "loop"
    /\ results' = MetricsDict(example_labels, example_preds, example_probs, <<0>>)
    /\ eval_pc' = IF results' = <<>> THEN "ValueError" ELSE "report"
    /\ UNCHANGED <<orchestrator, detector, n_samples, n_labels, batch_size, batch_start,
                   batch_len, batch_i, sample, example_labels, example_preds,
                   example_probs, step_count, doc_count, folded, one_at_a_time>>
    /\ UNCHANGED <<spanVars, charVars, facadeVars, scriptVars>>

\* "if verbose:" and the return.  With verbose the classification report
\* is built, which may raise; the results dict is returned otherwise.
ClassificationReport ==
    /\ eval_pc = "report"
    /\ \E verbose \in BOOLEAN :
          IF verbose /\ ReportRaises(example_labels, example_preds)
          THEN /\ results' = <<>>
               /\ eval_pc' = "ValueError"
          ELSE /\ results' = <<[results[1] EXCEPT !.classification_report = verbose]>>
               /\ eval_pc' = "done"
    /\ UNCHANGED <<orchestrator, detector, n_samples, n_labels, batch_size, batch_start,
                   batch_len, batch_i, sample, example_labels, example_preds,
                   example_probs, step_count, doc_count, folded, one_at_a_time>>
    /\ UNCHANGED <<spanVars, charVars, facadeVars, scriptVars>>

Min(a, b) ==
    IF a <= b THEN a ELSE b

\* One batch of evaluate_model, flattened: per token position its label and
\* the argmax of its logits.
TokenBatches ==
    UNION {[1 .. n -> [label : TokenLabels, pred : {0, 1}]] : n \in 1 .. MaxBatchLen}

\* tensor[mask] for mask = batch["labels"] != -100: the positions kept.
RECURSIVE Masked(_)
Masked(rows) ==
    IF rows = <<>> THEN <<>>
    ELSE IF Head(rows).label # -100 THEN <<Head(rows)>> \o Masked(Tail(rows))
    ELSE Masked(Tail(rows))

\* evaluate_model: one pass of the loop.  The model's predictions and the
\* labels at the positions with a label are added to the two lists.
EvaluateModelBatch ==
    /\ orchestrator = "evaluate_model"
    /\ eval_pc = "loop"
    /\ \E rows \in TokenBatches :
          LET kept == Masked(rows)
          IN  /\ Len(example_labels) + Len(kept) <= MaxItems
              /\ example_preds' = example_preds \o [k \in 1 .. Len(kept) |-> kept[k].pred]
              /\ example_labels' = example_labels \o [k \in 1 .. Len(kept) |-> kept[k].label]
              /\ folded' = folded + Len(kept)
              /\ batch_len' = Len(rows)
    /\ UNCHANGED <<orchestrator, detector, eval_pc, n_samples, n_labels, batch_size,
                   batch_start, batch_i, sample, example_probs, step_count,
                   doc_count, results, one_at_a_time>>
    /\ UNCHANGED <<spanVars, charVars, facadeVars, scriptVars>>

\* evaluate_model after the loop: precision_recall_fscore_support is called
\* without zero_division, and the ROC curve is built from the predictions.
EvaluateModelMetrics ==
    /\ orchestrator = "evaluate_model"
    /\ eval_pc = "loop"
    /\ results' = MetricsDict(example_labels, example_preds, example_preds, "warn")
    /\ eval_pc' = IF results' = <<>> THEN "ValueError" ELSE "report"
    /\ UNCHANGED <<orchestrator, detector, n_samples, n_labels, batch_size, batch_start,
                   batch_len, batch_i, sample, example_labels, example_preds,
                   example_probs, step_count, doc_count, folded, one_at_a_time>>
    /\ UNCHANGED <<spanVars, charVars, facadeVars, scriptVars>>

\* A sample of the detector-driven evaluators with the detector's answer:
\* sample.labels and the predicted spans.
DetectorSamples ==
    [gold_spans : SpanLists, predicted_spans : SpanLists]

\* Mutant of DetectorResult: an example is predicted positive only if a
\* predicted span overlaps a gold span.
DetectorResultNeedsOverlap(s) ==
    [label |-> IF s.gold_spans # <<>> THEN 1 ELSE 0,
     pred  |-> IF SampleOverlap(s.predicted_spans, s.gold_spans) > 0 THEN 1 ELSE 0]

\* true_example_label and pred_example_label of evaluate_detector_example_level.
DetectorResult(s) ==
    [label |-> IF s.gold_spans # <<>> THEN 1 ELSE 0,
     pred  |-> IF s.predicted_spans # <<>> THEN 1 ELSE 0]

\* The same two lines of evaluate_detector_example_level_batch.
BatchDetectorResult(s) ==
    [label |-> IF s.gold_spans # <<>> THEN 1 ELSE 0,
     pred  |-> IF s.predicted_spans # <<>> THEN 1 ELSE 0]

\* evaluate_detector_example_level: the next sample is taken and the
\* detector returns its spans.
DetectorPredictPrompt ==
    /\ orchestrator = "evaluate_detector_example_level"
    /\ eval_pc = "loop"
    /\ Len(example_labels) < MaxItems
    /\ \E s \in DetectorSamples : sample' = <<s>>
    /\ eval_pc' = "fold"
    /\ UNCHANGED <<orchestrator, detector, n_samples, n_labels, batch_size, batch_start,
                   batch_len, batch_i, example_labels, example_preds,
                   example_probs, step_count, doc_count, results, folded,
                   one_at_a_time>>
    /\ UNCHANGED <<spanVars, charVars, facadeVars, scriptVars>>

\* The detector raises on the next sample or batch: neither detector-driven
\* evaluator catches anything.
DetectorRaises ==
    /\ \/ orchestrator = "evaluate_detector_example_level"
       \/ /\ orchestrator = "evaluate_detector_example_level_batch"
          /\ detector = "BatchDetector"
          /\ batch_start < n_samples
    /\ eval_pc = "loop"
    /\ Len(example_labels) < MaxItems
    /\ eval_pc' = "raised"
    /\ UNCHANGED <<orchestrator, detector, n_samples, n_labels, batch_size, batch_start,
                   batch_len, batch_i, sample, example_labels, example_preds,
                   example_probs, step_count, doc_count, results, folded,
                   one_at_a_time>>
    /\ UNCHANGED <<spanVars, charVars, facadeVars, scriptVars>>

\* The rest of the loop body: the two labels are derived and appended.
DetectorFold ==
    /\ orchestrator = "evaluate_detector_example_level"
    /\ eval_pc = "fold"
    /\ LET r == DetectorResult(sample[1])
       IN  /\ example_labels' = Append(example_labels, r.label)
           /\ example_preds' = Append(example_preds, r.pred)
    /\ folded' = folded + 1
    /\ sample' = <<>>
    /\ eval_pc' = "loop"
    /\ UNCHANGED <<orchestrator, detector, n_samples, n_labels, batch_size, batch_start,
                   batch_len, batch_i, example_probs, step_count, doc_count,
                   results, one_at_a_time>>
    /\ UNCHANGED <<spanVars, charVars, facadeVars, scriptVars>>

\* After the loop of evaluate_detector_example_level.
DetectorMetrics ==
    /\ orchestrator = "evaluate_detector_example_level"
    /\ eval_pc = "loop"
    /\ results' = MetricsDict(example_labels, example_preds, example_preds, <<0>>)
    /\ eval_pc' = IF results' = <<>> THEN "ValueError" ELSE "report"
    /\ UNCHANGED <<orchestrator, detector, n_samples, n_labels, batch_size, batch_start,
                   batch_len, batch_i, sample, example_labels, example_preds,
                   example_probs, step_count, doc_count, folded, one_at_a_time>>
    /\ UNCHANGED <<spanVars, charVars, facadeVars, scriptVars>>

\* Mutant of BatchSlice: the slice loses its last sample.
BatchSliceDropsLast(start, size, n) ==
    Min(size, n - start) - 1

\* len(samples[i : i + batch_size])
BatchSlice(start, size, n) ==
    Min(size, n - start)

\* evaluate_detector_example_level_batch: the next slice of samples is
\* handed to detector.predict_prompt_batch.  HallucinationDetector has no
\* such attribute.
PredictPromptBatch ==
    /\ orchestrator = "evaluate_detector_example_level_batch"
    /\ eval_pc = "loop"
    /\ batch_start < n_samples
    /\ batch_len' = BatchSlice(batch_start, batch_size, n_samples)
    /\ batch_i' = 0
    /\ eval_pc' = IF detector = "HallucinationDetector" THEN "AttributeError"
                  ELSE IF batch_len' > 0 THEN "examples" ELSE "loop"
    /\ batch_start' = IF detector # "HallucinationDetector" /\ batch_len' = 0
                      THEN batch_start + batch_size ELSE batch_start
    /\ UNCHANGED <<orchestrator, detector, n_samples, n_labels, batch_size, sample,
                   example_labels, example_preds, example_probs, step_count,
                   doc_count, results, folded, one_at_a_time>>
    /\ UNCHANGED <<spanVars, charVars, facadeVars, scriptVars>>

\* zip(batch, predicted_spans) gives the next sample with its spans.  The
\* one-at-a-time evaluator, given the same sample and the same spans,
\* appends what DetectorResult derives.
BatchZip ==
    /\ orchestrator = "evaluate_detector_example_level_batch"
    /\ eval_pc = "examples"
    /\ \E s \in DetectorSamples :
          /\ sample' = <<s>>
          /\ one_at_a_time' =
                 [labels |-> Append(one_at_a_time.labels, DetectorResult(s).label),
                  preds  |-> Append(one_at_a_time.preds, DetectorResult(s).pred)]
    /\ eval_pc' = "fold"
    /\ UNCHANGED <<orchestrator, detector, n_samples, n_labels, batch_size, batch_start,
                   batch_len, batch_i, example_labels, example_preds,
                   example_probs, step_count, doc_count, results, folded>>
    /\ UNCHANGED <<spanVars, charVars, facadeVars, scriptVars>>

\* The body of the inner loop; after the last pair the outer loop steps on.
BatchFold ==
    /\ orchestrator = "evaluate_detector_example_level_batch"
    /\ eval_pc = "fold"
    /\ LET r == BatchDetectorResult(sample[1])
       IN  /\ example_labels' = Append(example_labels, r.label)
           /\ example_preds' = Append(example_preds, r.pred)
    /\ folded' = folded + 1
    /\ sample' = <<>>
    /\ batch_i' = IF batch_i + 1 < batch_len THEN batch_i + 1 ELSE 0
    /\ batch_len' = IF batch_i + 1 < batch_len THEN batch_len ELSE 0
    /\ batch_start' = IF batch_i + 1 < batch_len THEN batch_start
                      ELSE batch_start + batch_size
    /\ eval_pc' = IF batch_i + 1 < batch_len THEN "examples" ELSE "loop"
    /\ UNCHANGED <<orchestrator, detector, n_samples, n_labels, batch_size,
                   example_probs, step_count, doc_count, results, one_at_a_time>>
    /\ UNCHANGED <<spanVars, charVars, facadeVars, scriptVars>>

\* After the loop of evaluate_detector_example_level_batch.
BatchMetrics ==
    /\ orchestrator = "evaluate_detector_example_level_batch"
    /\ eval_pc = "loop"
    /\ batch_start >= n_samples
    /\ results' = MetricsDict(example_labels, example_preds, example_preds, <<0>>)
    /\ eval_pc' = IF results' = <<>> THEN "ValueError" ELSE "report"
    /\ UNCHANGED <<orchestrator, detector, n_samples, n_labels, batch_size, batch_start,
                   batch_len, batch_i, sample, example_labels, example_preds,
                   example_probs, step_count, doc_count, folded, one_at_a_time>>
    /\ UNCHANGED <<spanVars, charVars, facadeVars, scriptVars>>

\* The lists of classes a document carries: one class per sentence.
ClassLists ==
    UNION {[1 .. n -> {0, 1}] : n \in 0 .. MaxBatchLen}

\* One document of a batch of evaluate_sentence_model: the argmax of each
\* row of its logits and its labels; the two may differ in length.
SentenceDocs ==
    [logits : ClassLists, labels : ClassLists]

\* The canonical zero-valued result of evaluate_sentence_model.
SentinelResults ==
    [supported      |-> [precision |-> Zero, recall |-> Zero, f1 |-> Zero],
     hallucinated   |-> [precision |-> Zero, recall |-> Zero, f1 |-> Zero],
     auroc          |-> Zero,
     accuracy       |-> Zero,
     classification_report |-> FALSE]

\* accuracy_score(y_true, y_pred)
AccuracyScore(y_true, y_pred) ==
    Frac(Cardinality({k \in 1 .. Len(y_true) : y_true[k] = y_pred[k]}), Len(y_true))

\* Mutant of EffectiveSize: a document whose sizes differ is cut to nothing.
EffectiveSizeDropsMismatch(doc) ==
    IF Len(doc.logits) # Len(doc.labels) THEN 0 ELSE Len(doc.logits)

\* effective_size = min(logits.size(0), labels_i.size(0))
EffectiveSize(doc) ==
    Min(Len(doc.logits), Len(doc.labels))

\* evaluate_sentence_model: the loader gives the next batch and the model
\* its list of logits, one tensor per document; labels_list may be shorter
\* or longer than that list.
SentenceBatch ==
    /\ orchestrator = "evaluate_sentence_model"
    /\ eval_pc = "loop"
    /\ step_count < MaxItems
    /\ \E n_logits \in 1 .. MaxBatchLen, len_labels \in 0 .. MaxBatchLen :
          /\ batch_len' = n_logits
          /\ n_labels' = len_labels
    /\ batch_i' = 0
    /\ doc_count' = 0
    /\ eval_pc' = "examples"
    /\ UNCHANGED <<orchestrator, detector, n_samples, batch_size, batch_start,
                   sample, example_labels, example_preds, example_probs,
                   step_count, results, folded, one_at_a_time>>
    /\ UNCHANGED <<spanVars, charVars, facadeVars, scriptVars>>

\* The model or the criterion raises inside a batch: "except Exception"
\* logs it and the loop goes on with the next batch.  What the batch's
\* earlier documents added to the lists stays; step_count is not counted up.
SentenceBatchFails ==
    /\ orchestrator = "evaluate_sentence_model"
    /\ eval_pc \in {"examples", "fold"}
    /\ eval_pc' = "loop"
    /\ sample' = <<>>
    /\ batch_len' = 0
    /\ batch_i' = 0
    /\ UNCHANGED <<orchestrator, detector, n_samples, n_labels, batch_size, batch_start,
                   example_labels, example_preds, example_probs, step_count,
                   doc_count, results, folded, one_at_a_time>>
    /\ UNCHANGED <<spanVars, charVars, facadeVars, scriptVars>>

\* The end of one pass of the inner loop: the next document, or after the
\* last one "if doc_count > 0: ... step_count += 1" and the next batch.
NextDocument(docs) ==
    IF batch_i + 1 < batch_len
    THEN /\ batch_i' = batch_i + 1
         /\ eval_pc' = "examples"
         /\ UNCHANGED <<batch_len, step_count>>
    ELSE /\ batch_i' = 0
         /\ batch_len' = 0
         /\ step_count' = IF docs > 0 THEN step_count + 1 ELSE step_count
         /\ eval_pc' = "loop"

\* enumerate(logits_list) gives a tensor that has no entry in labels_list:
\* a warning, and the document is skipped.
SentenceDocUnmatched ==
    /\ orchestrator = "evaluate_sentence_model"
    /\ eval_pc = "examples"
    /\ batch_i >= n_labels
    /\ NextDocument(doc_count)
    /\ UNCHANGED <<orchestrator, detector, n_samples, n_labels, batch_size, batch_start,
                   sample, example_labels, example_preds, example_probs,
                   doc_count, results, folded, one_at_a_time>>
    /\ UNCHANGED <<spanVars, charVars, facadeVars, scriptVars>>

\* enumerate(logits_list) gives a tensor that has its entry in labels_list.
SentenceDocRead ==
    /\ orchestrator = "evaluate_sentence_model"
    /\ eval_pc = "examples"
    /\ batch_i < n_labels
    /\ \E doc \in SentenceDocs :
          /\ Len(example_preds) + Len(doc.logits) <= MaxItems
          /\ sample' = <<doc>>
    /\ eval_pc' = "fold"
    /\ UNCHANGED <<orchestrator, detector, n_samples, n_labels, batch_size, batch_start,
                   batch_len, batch_i, example_labels, example_preds,
                   example_probs, step_count, doc_count, results, folded,
                   one_at_a_time>>
    /\ UNCHANGED <<spanVars, charVars, facadeVars, scriptVars>>

\* The rest of the inner loop's body: a document without logits is passed
\* over; otherwise logits and labels are cut to effective_size, the loss is
\* taken and the predictions and labels are added to the lists.
SentenceDocFold ==
    /\ orchestrator = "evaluate_sentence_model"
    /\ eval_pc = "fold"
    /\ LET doc            == sample[1]
           effective_size == EffectiveSize(doc)
       IN  IF Len(doc.logits) = 0
           THEN /\ NextDocument(doc_count)
                /\ UNCHANGED <<example_preds, example_labels, doc_count, folded>>
           ELSE /\ example_preds' =
                       example_preds \o SubSeq(doc.logits, 1, effective_size)
                /\ example_labels' =
                       example_labels \o SubSeq(doc.labels, 1, effective_size)
                /\ folded' = folded + effective_size
                /\ doc_count' = doc_count + 1
                /\ NextDocument(doc_count + 1)
    /\ sample' = <<>>
    /\ UNCHANGED <<orchestrator, detector, n_samples, n_labels, batch_size, batch_start,
                   example_probs, results, one_at_a_time>>
    /\ UNCHANGED <<spanVars, charVars, facadeVars, scriptVars>>

\* After the loop, which ends when the loader is exhausted or raises: the
\* sentinel is returned at once when no step was counted; otherwise the
\* mean loss is stored under "loss" (its value is not followed here) and the
\* metrics are computed inside "try", the sentinel's values standing in when
\* the lists are empty or the computation raises.
SentenceMetrics ==
    /\ orchestrator = "evaluate_sentence_model"
    /\ eval_pc = "loop"
    /\ LET m == MetricsDict(example_labels, example_preds, example_preds, <<0>>)
       IN  IF step_count = 0
           THEN /\ results' = <<SentinelResults>>
                /\ eval_pc' = "done"
           ELSE /\ results' =
                       IF Len(example_preds) > 0 /\ m # <<>>
                       THEN <<[loss           |-> "total_loss / step_count",
                               supported      |-> m[1].supported,
                               hallucinated   |-> m[1].hallucinated,
                               auroc          |-> m[1].auroc,
                               accuracy       |-> AccuracyScore(example_labels,
                                                                example_preds),
                               classification_report |-> FALSE]>>
                       ELSE <<[loss           |-> "total_loss / step_count",
                               supported      |-> SentinelResults.supported,
                               hallucinated   |-> SentinelResults.hallucinated,
                               auroc          |-> SentinelResults.auroc,
                               accuracy       |-> SentinelResults.accuracy,
                               classification_report |-> FALSE]>>
                /\ eval_pc' = "report"
    /\ UNCHANGED <<orchestrator, detector, n_samples, n_labels, batch_size, batch_start,
                   batch_len, batch_i, sample, example_labels, example_preds,
                   example_probs, step_count, doc_count, folded, one_at_a_time>>
    /\ UNCHANGED <<spanVars, charVars, facadeVars, scriptVars>>

EvalInit ==
    /\ orchestrator \in Orchestrators
    /\ IF orchestrator = "evaluate_detector_example_level_batch"
       THEN /\ detector \in Detectors
            /\ n_samples \in 0 .. MaxItems
            /\ batch_size \in 1 .. MaxBatchLen
       ELSE /\ detector = IF orchestrator = "evaluate_detector_example_level"
                          THEN "HallucinationDetector" ELSE "none"
            /\ n_samples = 0
            /\ batch_size = 0
    /\ eval_pc = "init"
    /\ n_labels = 0
    /\ batch_start = 0
    /\ batch_len = 0
    /\ batch_i = 0
    /\ sample = <<>>
    /\ example_labels = <<>>
    /\ example_preds = <<>>
    /\ example_probs = <<>>
    /\ step_count = 0
    /\ doc_count = 0
    /\ results = <<>>
    /\ folded = 0
    /\ one_at_a_time = [labels |-> <<>>, preds |-> <<>>]
    /\ pc = "idle"
    /\ offsets = <<>>
    /\ probabilities = <<>>
    /\ answer_start_token = 0
    /\ answer_char_offset = 0
    /\ i = 0
    /\ spans = <<>>
    /\ current_span = <<>>
    /\ span_tokens = <<>>
    /\ open_tokens = {}
    /\ char_pc = "idle"
    /\ sample_index = 0
    /\ predicted_spans = <<>>
    /\ gold_spans = <<>>
    /\ total_overlap = 0
    /\ total_predicted = 0
    /\ total_gold = 0
    /\ metrics = <<>>
    /\ swapped = <<>>
    /\ exact_corpus = TRUE
    /\ disjoint_corpus = TRUE
    /\ FacadeIdle
    /\ ScriptIdle

EvalNext ==
    \/ Begin
    \/ ModelRaises
    \/ EvaluateModelBatch
    \/ EvaluateModelMetrics
    \/ ExampleLevelBatch
    \/ ExampleLevelRead
    \/ ExampleLevelFold
    \/ ExampleLevelMetrics
    \/ DetectorPredictPrompt
    \/ DetectorRaises
    \/ DetectorFold
    \/ DetectorMetrics
    \/ PredictPromptBatch
    \/ BatchZip
    \/ BatchFold
    \/ BatchMetrics
    \/ SentenceBatch
    \/ SentenceBatchFails
    \/ SentenceDocUnmatched
    \/ SentenceDocRead
    \/ SentenceDocFold
    \/ SentenceMetrics
    \/ ClassificationReport

EvalSpec == EvalInit /\ [][EvalNext]_vars


\* ------------------------------- classification orchestrators: the claims
\* The example's token labels and predicted classes at its valid positions.
LabelsOf(row) ==
    [k \in 1 .. Len(row) |-> row[k].label]

PredsOf(row) ==
    [k \in 1 .. Len(row) |-> IF row[k].prob >= 6 THEN 1 ELSE 0]

\* C12: evaluate_model_example_level appends for each example the label 1
\* iff some position with label # -100 has gold label 1, the prediction 1
\* iff some such position has predicted class 1, and for an example with no
\* such position label 0, prediction 0 and score 0.0; gold [0,0,1,0] with
\* predicted [0,0,0,0] gives label 1 and prediction 0.
C12_ExampleLabelDerivation ==
    [][(orchestrator = "evaluate_model_example_level" /\ eval_pc = "fold") =>
          LET row    == sample[1]
              gold   == LabelsOf(row)
              pred   == PredsOf(row)
              valid  == {k \in 1 .. Len(row) : gold[k] # -100}
              label1 == \E k \in valid : gold[k] = 1
              pred1  == \E k \in valid : pred[k] = 1
          IN  /\ example_labels' = Append(example_labels, IF label1 THEN 1 ELSE 0)
              /\ example_preds' = Append(example_preds, IF pred1 THEN 1 ELSE 0)
              /\ Len(example_probs') = Len(example_probs) + 1
              /\ valid = {} =>
                     /\ example_labels'[Len(example_labels')] = 0
                     /\ example_preds'[Len(example_preds')] = 0
                     /\ example_probs'[Len(example_probs')] = 0
              /\ (gold = <<0, 0, 1, 0>> /\ pred = <<0, 0, 0, 0>>) =>
                     /\ example_labels'[Len(example_labels')] = 1
                     /\ example_preds'[Len(example_preds')] = 0]_vars

\* A run has recorded (label 1, prediction 0) for its first example and
\* (0, 0, 0.0), the entry of an example without valid position, for its
\* second.
C12_Witness ==
    /\ orchestrator = "evaluate_model_example_level"
    /\ eval_pc = "done"
    /\ example_labels = <<1, 0>>
    /\ example_preds = <<0, 0>>
    /\ example_probs = <<3, 0>>

\* C13: each fold step of evaluate_detector_example_level and of
\* evaluate_detector_example_level_batch appends the label 1 iff the
\* sample's gold span list is non-empty and the prediction 1 iff the span
\* list the detector returned for it is non-empty, wherever the spans lie.
C13_DetectorLabelDerivation ==
    [][(/\ orchestrator \in {"evaluate_detector_example_level",
                             "evaluate_detector_example_level_batch"}
        /\ eval_pc = "fold") =>
          /\ example_labels' =
                 Append(example_labels, IF Len(sample[1].gold_spans) > 0 THEN 1 ELSE 0)
          /\ example_preds' =
                 Append(example_preds,
                        IF Len(sample[1].predicted_spans) > 0 THEN 1 ELSE 0)]_vars

\* A sample with a gold span for which the detector returned no span has
\* been recorded as (label 1, prediction 0), and the sample at hand has the
\* gold span (0,2) and the predicted span (5,8), which share no character.
C13_Witness ==
    /\ orchestrator = "evaluate_detector_example_level"
    /\ eval_pc = "fold"
    /\ example_labels = <<1>>
    /\ example_preds = <<0>>
    /\ sample[1].gold_spans = <<[start |-> 0, end |-> 2]>>
    /\ sample[1].predicted_spans = <<[start |-> 5, end |-> 8]>>

\* The positions of the run after its metrics were computed.
Finalized == {"report", "done"}

\* C14: in every orchestrator the computed metrics give precision 0 to a
\* class with no predicted-positive item and recall 0 to a class with no
\* actual-positive item, no metric is not-a-number, and computing them over
\* non-empty lists does not raise; the corpus of the one example with label
\* 1 and prediction 0 gets hallucinated recall 0 and precision 0.
C14_ZeroDivisionGivesZero ==
    /\ [](eval_pc \in Finalized =>
             /\ \A c \in {0, 1} :
                   LET scores == IF c = 0 THEN results[1].supported
                                 ELSE results[1].hallucinated
                   IN  /\ scores.precision # NaN
                       /\ scores.recall # NaN
                       /\ scores.f1 # NaN
                       /\ CountOf(example_preds, c) = 0 => scores.precision = Zero
                       /\ CountOf(example_labels, c) = 0 => scores.recall = Zero
             /\ (example_labels = <<1>> /\ example_preds = <<0>>) =>
                   /\ results[1].hallucinated.recall = Zero
                   /\ results[1].hallucinated.precision = Zero)
    /\ [][(/\ eval_pc = "loop"
           /\ example_labels # <<>>
           /\ eval_pc' \notin {"loop", "examples", "fold", "raised", "AttributeError"}) =>
              eval_pc' \in Finalized]_vars

\* evaluate_detector_example_level has returned the metrics of the corpus
\* of one example with label 1 and prediction 0.
C14_Witness ==
    /\ orchestrator = "evaluate_detector_example_level"
    /\ eval_pc = "done"
    /\ example_labels = <<1>>
    /\ example_preds = <<0>>
    /\ results[1].hallucinated.precision = Zero
    /\ results[1].hallucinated.recall = Zero
    /\ results[1].supported.recall = Zero

\* The zero-valued metrics of a results dict.
ZeroValued(r) ==
    /\ r.supported = [precision |-> Zero, recall |-> Zero, f1 |-> Zero]
    /\ r.hallucinated = [precision |-> Zero, recall |-> Zero, f1 |-> Zero]
    /\ r.auroc = Zero

\* C15: a run into whose lists nothing was folded does not leave its
\* orchestrator by an exception of the metrics computation, and what it
\* returns is the zero-valued result.
C15_EmptyCorpusSentinel ==
    (folded = 0 /\ example_labels = <<>> /\ example_preds = <<>>) =>
        /\ eval_pc # "ValueError"
        /\ eval_pc = "done" => ZeroValued(results[1])

\* evaluate_sentence_model is the one orchestrator that has the sentinel:
\* with verbose off a run that folded nothing returns the zero-valued result.
SentenceModelEmptyCorpusSentinel ==
    (/\ orchestrator = "evaluate_sentence_model"
     /\ folded = 0
     /\ eval_pc = "done"
     /\ ~results[1].classification_report) =>
        ZeroValued(results[1])

\* C16: a run survives a collaborator failure. When the detector or the
\* model raises on an example, the example is skipped and the run goes on:
\* the exception never leaves the orchestrator. Stated for
\* evaluate_detector_example_level.
C16_CollaboratorFailureAbsorbed ==
    orchestrator = "evaluate_detector_example_level" => eval_pc # "raised"

\* The same statement for evaluate_detector_char_level, under CharSpec.
CharLevelFailureAbsorbed ==
    char_pc # "raised"

\* C17: batch-size independence. Driven through the HallucinationDetector
\* facade, evaluate_detector_example_level_batch ends its loop for every
\* corpus and every batch_size >= 1, and has then accumulated one entry per
\* sample: the (label, prediction) sequence that
\* evaluate_detector_example_level accumulates over the same samples.
C17_BatchSizeIndependence ==
    (/\ orchestrator = "evaluate_detector_example_level_batch"
     /\ detector = "HallucinationDetector") =>
        /\ eval_pc # "AttributeError"
        /\ eval_pc \in Finalized =>
               /\ Len(example_labels) = n_samples
               /\ example_labels = one_at_a_time.labels
               /\ example_preds = one_at_a_time.preds

\* The same statement for a detector that has predict_prompt_batch and
\* returns one list of spans per prompt.
BatchDetectorIndependence ==
    (/\ orchestrator = "evaluate_detector_example_level_batch"
     /\ detector = "BatchDetector") =>
        /\ eval_pc # "AttributeError"
        /\ eval_pc \in Finalized =>
               /\ Len(example_labels) = n_samples
               /\ example_labels = one_at_a_time.labels
               /\ example_preds = one_at_a_time.preds

\* The phase of a run: 0 before the lists exist (INIT), 1 inside the loop
\* (STREAMING), 2 once the metrics are computed (FINALIZED), 3 when an
\* exception has left the function.
PhaseRank ==
    CASE eval_pc = "init" -> 0
      [] eval_pc \in {"loop", "examples", "fold"} -> 1
      [] eval_pc \in Finalized -> 2
      [] OTHER -> 3

\* C18: a run moves only INIT -> STREAMING -> FINALIZED. The lists are
\* created empty; they change only inside the loop; the metrics are computed
\* by the one step that leaves the loop for FINALIZED, which is taken
\* between two examples and never again; nothing is folded from then on.
C18_InitStreamingFinalized ==
    /\ [](/\ PhaseRank <= 1 => results = <<>>
          /\ PhaseRank = 2 => results # <<>>)
    /\ [][/\ PhaseRank' >= PhaseRank
          /\ eval_pc = "init" =>
                 /\ eval_pc' = "loop"
                 /\ example_labels' = <<>> /\ example_preds' = <<>>
                 /\ example_probs' = <<>>
          /\ <<example_labels, example_preds, example_probs>>' #
                 <<example_labels, example_preds, example_probs>> =>
                 PhaseRank = 1 /\ PhaseRank' = 1
          /\ (PhaseRank = 1 /\ PhaseRank' = 2) <=> (results = <<>> /\ results' # <<>>)
          /\ (PhaseRank = 1 /\ PhaseRank' = 2) => (eval_pc = "loop" /\ sample = <<>>)
         ]_vars

\* evaluate_model_example_level has folded two examples, computed the
\* metrics and returned them.
C18_Witness ==
    /\ orchestrator = "evaluate_model_example_level"
    /\ eval_pc = "done"
    /\ folded = 2
    /\ example_labels = <<0, 1>>
    /\ results # <<>>

\* Sequence a is the beginning of sequence b.
IsPrefix(a, b) ==
    /\ Len(a) <= Len(b)
    /\ \A k \in 1 .. Len(a) : a[k] = b[k]

\* The three lists of a run, side by side.
Accumulator ==
    <<example_labels, example_preds, example_probs>>

Methods ==
    {"transformer", "llm", "rule"}

\* The output formats a caller may ask for: the two that exist and one that
\* does not.
OutputFormats ==
    {"tokens", "spans", "json"}

\* The characters of the texts of this section.
Alphabet ==
    {"a", "b"}

\* The texts of at most n characters.
Texts(n) ==
    UNION {[1 .. k -> Alphabet] : k \in 0 .. n}

\* The values of "hallucination list": lists of at most MaxSpans texts.
HallucinationLists ==
    UNION {[1 .. k -> Texts(MaxHal)] : k \in 0 .. MaxSpans}

\* An LLM response text, as the two library calls of _create_labels see it:
\* whether re.search(r"\{.*?\}", llm_content, re.DOTALL) finds an object,
\* whether json.loads decodes it, whether the decoded dict has the key
\* "hallucination list", and the key's value.
LLMContents ==
    {[object |-> FALSE, decodes |-> FALSE, has_key |-> FALSE,
      hallucination_list |-> <<>>],
     [object |-> TRUE, decodes |-> FALSE, has_key |-> FALSE,
      hallucination_list |-> <<>>],
     [object |-> TRUE, decodes |-> TRUE, has_key |-> FALSE,
      hallucination_list |-> <<>>]}
    \cup {[object |-> TRUE, decodes |-> TRUE, has_key |-> TRUE,
           hallucination_list |-> l] : l \in HallucinationLists}

\* re.search(re.escape(hal), answer): None (<<>>) or the match's start and
\* end (<<start, end>>), the leftmost occurrence of hal in the answer.
Search(hal, text) ==
    LET starts == {s \in 0 .. Len(text) - Len(hal) :
                       SubSeq(text, s + 1, s + Len(hal)) = hal}
    IN  IF starts = {} THEN <<>>
        ELSE <<SetMin(starts), SetMin(starts) + Len(hal)>>

\* The loop of _create_labels over hal_dict["hallucination list"].
RECURSIVE MatchLabels(_, _)
MatchLabels(hallucination_list, text) ==
    IF hallucination_list = <<>> THEN <<>>
    ELSE LET hal   == Head(hallucination_list)
             match == Search(hal, text)
         IN  (IF match # <<>>
              THEN <<[start |-> match[1], end |-> match[2], text |-> hal]>>
              ELSE <<>>)
             \o MatchLabels(Tail(hallucination_list), text)

\* LLMDetector._create_labels: the exception that leaves it ("" for none)
\* and the list it returns.  match_dict.group(0) on None raises
\* AttributeError and hal_dict["hallucination list"] on a dict without the
\* key raises KeyError; "except json.JSONDecodeError" catches neither.
CreateLabels(content, text) ==
    IF ~content.object THEN [raised |-> "AttributeError", labels |-> <<>>]
    ELSE IF ~content.decodes THEN [raised |-> "", labels |-> <<>>]
    ELSE IF ~content.has_key THEN [raised |-> "KeyError", labels |-> <<>>]
    ELSE [raised |-> "", labels |-> MatchLabels(content.hallucination_list, text)]

\* What TransformerDetector._predict may return for an answer: per answer
\* character a token with its predicted class, or at most one span of the
\* answer.  The lists themselves are the subject of SpanSpec.
TransformerOutputs(format, text) ==
    IF format = "tokens"
    THEN {[k \in 1 .. Len(text) |-> [token |-> text[k], pred |-> p[k]]] :
              p \in [1 .. Len(text) -> {0, 1}]}
    ELSE {<<>>} \cup
         {<<[start |-> a, end |-> b, text |-> SubSeq(text, a + 1, b)]>> :
              a \in 0 .. Len(text), b \in 0 .. Len(text)}

\* Mutant of SupportedFormats: the LLM detector takes "tokens" for "spans".
SupportedFormatsLenient(m) ==
    {"tokens", "spans"}

\* The output formats of the two _predict methods that lead to a return.
SupportedFormats(m) ==
    IF m = "transformer" THEN {"tokens", "spans"} ELSE {"spans"}

\* HallucinationDetector.__init__
HallucinationDetectorInit ==
    /\ facade_pc = "init"
    /\ facade_pc' = IF method \in {"transformer", "llm"} THEN "ready"
                    ELSE "ValueError"
    /\ UNCHANGED <<method, output_format, llm_content, answer_text, labels>>
    /\ UNCHANGED <<spanVars, charVars, evalVars, scriptVars>>

\* HallucinationDetector.predict or predict_prompt: the request is handed to
\* the detector's _predict.
FacadePredict ==
    /\ facade_pc = "ready"
    /\ output_format' \in OutputFormats
    /\ answer_text' \in Texts(MaxChar)
    /\ facade_pc' = method
    /\ UNCHANGED <<method, llm_content, labels>>
    /\ UNCHANGED <<spanVars, charVars, evalVars, scriptVars>>

\* TransformerDetector._predict: the model runs, then the branch on
\* output_format returns a list or raises.
TransformerPredict ==
    /\ facade_pc = "transformer"
    /\ IF output_format \in SupportedFormats("transformer")
       THEN /\ \E l \in TransformerOutputs(output_format, answer_text) :
                  labels' = <<l>>
            /\ facade_pc' = "returned"
       ELSE /\ labels' = <<>>
            /\ facade_pc' = "ValueError"
    /\ UNCHANGED <<method, output_format, llm_content, answer_text>>
    /\ UNCHANGED <<spanVars, charVars, evalVars, scriptVars>>

\* LLMDetector._predict up to the call of _create_labels: with "spans" the
\* LLM is asked and answers; the method raises otherwise.
LLMPredict ==
    /\ facade_pc = "llm"
    /\ IF output_format \in SupportedFormats("llm")
       THEN /\ \E content \in LLMContents : llm_content' = <<content>>
            /\ facade_pc' = "create_labels"
       ELSE /\ llm_content' = <<>>
            /\ facade_pc' = "ValueError"
    /\ UNCHANGED <<method, output_format, answer_text, labels>>
    /\ UNCHANGED <<spanVars, charVars, evalVars, scriptVars>>

\* predictions = self._create_labels(llm_content, answer); return predictions
LLMCreateLabels ==
    /\ facade_pc = "create_labels"
    /\ LET r == CreateLabels(llm_content[1], answer_text)
       IN  IF r.raised # ""
           THEN /\ facade_pc' = r.raised
                /\ labels' = <<>>
           ELSE /\ facade_pc' = "returned"
                /\ labels' = <<r.labels>>
    /\ UNCHANGED <<method, output_format, llm_content, answer_text>>
    /\ UNCHANGED <<spanVars, charVars, evalVars, scriptVars>>

FacadeInit ==
    /\ method \in Methods
    /\ facade_pc = "init"
    /\ output_format = "none"
    /\ llm_content = <<>>
    /\ answer_text = <<>>
    /\ labels = <<>>
    /\ pc = "idle"
    /\ offsets = <<>>
    /\ probabilities = <<>>
    /\ answer_start_token = 0
    /\ answer_char_offset = 0
    /\ i = 0
    /\ spans = <<>>
    /\ current_span = <<>>
    /\ span_tokens = <<>>
    /\ open_tokens = {}
    /\ char_pc = "idle"
    /\ sample_index = 0
    /\ predicted_spans = <<>>
    /\ gold_spans = <<>>
    /\ total_overlap = 0
    /\ total_predicted = 0
    /\ total_gold = 0
    /\ metrics = <<>>
    /\ swapped = <<>>
    /\ exact_corpus = TRUE
    /\ disjoint_corpus = TRUE
    /\ EvalIdle
    /\ ScriptIdle

FacadeNext ==
    \/ HallucinationDetectorInit
    \/ FacadePredict
    \/ TransformerPredict
    \/ LLMPredict
    \/ LLMCreateLabels

FacadeSpec == FacadeInit /\ [][FacadeNext]_vars

\* ------------------------------------------------ facade and LLM claims
\* C21: malformed LLM output. Whatever the response text is - no {...}
\* object, an object json.loads rejects, a dict without the key
\* "hallucination list" - _create_labels raises nothing and returns the
\* empty list.
C21_MalformedOutputGivesNoSpans ==
    /\ facade_pc \notin {"AttributeError", "KeyError"}
    /\ (/\ facade_pc = "returned"
        /\ method = "llm"
        /\ ~(llm_content[1].object /\ llm_content[1].decodes /\ llm_content[1].has_key)) =>
           labels = <<<<>>>>

\* The part of C21 the code keeps: an object that json.loads rejects gives
\* the empty list.
InvalidJSONGivesNoSpans ==
    (/\ method = "llm"
     /\ facade_pc \notin {"init", "ready", "llm", "create_labels"}
     /\ output_format = "spans"
     /\ llm_content[1].object
     /\ ~llm_content[1].decodes) =>
        facade_pc = "returned" /\ labels = <<<<>>>>

\* C22: invalid configuration. A request whose output_format the selected
\* detector does not support - anything but "tokens" and "spans" for the
\* transformer detector, anything but "spans" for the LLM detector - ends
\* in ValueError and returns no list; a method tag other than "transformer"
\* and "llm" ends the construction of the facade in ValueError.
C22_InvalidConfigurationRaises ==
    /\ (method \notin {"transformer", "llm"} /\ facade_pc # "init") =>
           facade_pc = "ValueError" /\ labels = <<>>
    /\ (/\ method = "transformer"
        /\ facade_pc \notin {"init", "ready", "transformer"}
        /\ output_format \notin {"tokens", "spans"}) =>
           facade_pc = "ValueError" /\ labels = <<>>
    /\ (/\ method = "llm"
        /\ facade_pc \notin {"init", "ready", "llm"}
        /\ output_format # "spans") =>
           facade_pc = "ValueError" /\ labels = <<>>

\* The LLM detector was asked for "tokens", the default of the facade's
\* predict_prompt, and raised.
C22_Witness ==
    /\ method = "llm"
    /\ output_format = "tokens"
    /\ answer_text = <<"a", "b">>
    /\ facade_pc = "ValueError"
    /\ labels = <<>>

\* ---------------------------------------------- classification claims (2)
\* The keys of a returned results dict: "classification_report" is a key of
\* the dict only when the report was stored.
ReportKeys(r) ==
    (DOMAIN r \ {"classification_report"}) \cup
        (IF r.classification_report THEN {"classification_report"} ELSE {})

\* C23: the shape of the metrics report. A run whose loop has ended returns:
\* neither the metrics computation nor the verbose report raises; and what
\* is returned maps "supported" and "hallucinated" to precision, recall and
\* f1, has "auroc", and beyond these at most "accuracy" and
\* "classification_report".
C23_ReportShape ==
    /\ eval_pc # "ValueError"
    /\ eval_pc = "done" =>
           /\ {"supported", "hallucinated", "auroc"} \subseteq ReportKeys(results[1])
           /\ ReportKeys(results[1]) \subseteq
                  {"supported", "hallucinated", "auroc", "accuracy",
                   "classification_report"}
           /\ DOMAIN results[1].supported = {"precision", "recall", "f1"}
           /\ DOMAIN results[1].hallucinated = {"precision", "recall", "f1"}

\* What remains of C23 in the code: whatever is returned has the three
\* required keys, and beyond them at most "accuracy", "classification_report"
\* and the "loss" of evaluate_sentence_model.
ReturnedReportShape ==
    eval_pc = "done" =>
        /\ {"supported", "hallucinated", "auroc"} \subseteq ReportKeys(results[1])
        /\ ReportKeys(results[1]) \subseteq
               {"supported", "hallucinated", "auroc", "accuracy",
                "classification_report", "loss"}
        /\ DOMAIN results[1].supported = {"precision", "recall", "f1"}
        /\ DOMAIN results[1].hallucinated = {"precision", "recall", "f1"}
        /\ "loss" \in ReportKeys(results[1]) =>
               orchestrator = "evaluate_sentence_model" /\ step_count > 0

\* C24: a failed batch of evaluate_sentence_model leaves nothing behind.
\* Between two batches and at the end of the run every entry of all_preds
\* and all_labels comes from a batch counted in step_count: while
\* step_count is 0 the two lists are empty.
C24_FailedBatchLeavesNothing ==
    (/\ orchestrator = "evaluate_sentence_model"
     /\ eval_pc \in {"loop", "report", "done"}
     /\ step_count = 0) =>
        example_preds = <<>> /\ example_labels = <<>>

\* The part of C24 the code keeps: a batch that fails is not counted in
\* step_count.
FailedBatchNotCounted ==
    [][(/\ orchestrator = "evaluate_sentence_model"
        /\ step_count' # step_count) =>
           /\ eval_pc \in {"examples", "fold"}
           /\ batch_i + 1 >= batch_len
           /\ doc_count' > 0
           /\ step_count' = step_count + 1
      ]_vars

\* ------------------------------------------------- char-level claims (2)
\* A fraction between 0 and 1.
InUnitInterval(x) ==
    0 <= x[1] /\ x[1] <= x[2]

\* C25: the char-level bound. As long as in every folded sample the
\* predicted spans are pairwise disjoint and the gold spans are pairwise
\* disjoint, 0 <= total_overlap <= min(total_predicted, total_gold), and
\* the returned precision, recall and F1 lie in [0, 1]; from one sample to
\* the next none of the three totals decreases.
C25_OverlapBounded ==
    /\ [](disjoint_corpus =>
              /\ 0 <= total_overlap
              /\ total_overlap <= total_predicted
              /\ total_overlap <= total_gold
              /\ char_pc = "done" =>
                     /\ InUnitInterval(metrics[1].precision)
                     /\ InUnitInterval(metrics[1].recall)
                     /\ InUnitInterval(metrics[1].f1))
    /\ [][/\ total_overlap' >= total_overlap
          /\ total_predicted' >= total_predicted
          /\ total_gold' >= total_gold]_vars

\* Two samples with disjoint spans on either side were scored: predicted
\* (0,5), (5,8) against gold (0,2), (2,8), then nothing predicted against
\* gold (0,2).
C25_Witness ==
    /\ char_pc = "done"
    /\ sample_index = 2
    /\ disjoint_corpus
    /\ ~exact_corpus
    /\ total_overlap = 8
    /\ total_predicted = 8
    /\ total_gold = 10
    /\ metrics[1].precision = Frac(1, 1)

\* Without the condition the bound fails: same-side spans that overlap let
\* total_overlap exceed a total.
OverlapBoundedAlways ==
    total_overlap <= total_predicted /\ total_overlap <= total_gold

\* -------------------------------------------------------- baseline scripts
\* The two scripts; main of either has the same shape.
Scripts ==
    {"chatgpt_baseline", "ragas_baseline"}

\* test_samples: the test split of the input file, sample k written k.
TestSamples(n) ==
    [k \in 1 .. n |-> k]

\* The states of the output file when main starts: no file, or a file that
\* holds the first k test samples.
ExistingFiles(n) ==
    {<<>>} \cup {<<TestSamples(k)>> : k \in 0 .. n}

\* load_check_existing_data: the file's samples, or no samples when there
\* is no file.
LoadCheckExistingData(file) ==
    IF file = <<>> THEN <<>> ELSE file[1]

\* The list the loop enumerates: chatgpt_baseline runs over test_samples,
\* ragas_baseline over samples_to_process = samples[num_processed:].
Enumerated(s, n, processed) ==
    IF s = "chatgpt_baseline" THEN TestSamples(n)
    ELSE SubSeq(TestSamples(n), processed + 1, n)

\* The test that guards write_text in the loop, for loop index i:
\* "i % 10 == 0 or i == total_samples - 1" in chatgpt_baseline,
\* "(i + 1) % 50 == 0 or (i + 1) == total_samples" in ragas_baseline.
SaveDue(s, index, total) ==
    IF s = "chatgpt_baseline"
    THEN index % 10 = 0 \/ index = total - 1
    ELSE (index + 1) % 50 = 0 \/ index + 1 = total

\* main up to the loop: the test split is taken, the output file is loaded
\* and its length is stored twice.
LoadExisting ==
    /\ script_pc = "load"
    /\ samples' = LoadCheckExistingData(output_file)
    /\ num_processed' = Len(samples')
    /\ total_samples' = Len(samples')
    /\ iterated' = Enumerated(script, n_test, num_processed')
    /\ script_pc' = "loop"
    /\ UNCHANGED <<script, n_test, output_file>>
    /\ UNCHANGED <<spanVars, charVars, evalVars, facadeVars>>

\* One pass of "for i, sample in enumerate(..., start=num_processed)": the
\* loop has made Len(samples) - num_processed passes, so its index i is
\* Len(samples).  The sample is processed and appended, and the whole list
\* is written when the test on i says so.
ProcessSample ==
    /\ script_pc = "loop"
    /\ Len(samples) - num_processed < Len(iterated)
    /\ LET index  == Len(samples)
           sample_k == iterated[Len(samples) - num_processed + 1]
       IN  /\ samples' = Append(samples, sample_k)
           /\ output_file' = IF SaveDue(script, index, total_samples)
                             THEN <<samples'>> ELSE output_file
    /\ UNCHANGED <<script, script_pc, n_test, iterated, num_processed,
                   total_samples>>
    /\ UNCHANGED <<spanVars, charVars, evalVars, facadeVars>>

\* The loop is exhausted and main returns.
MainReturns ==
    /\ script_pc = "loop"
    /\ Len(samples) - num_processed = Len(iterated)
    /\ script_pc' = "done"
    /\ UNCHANGED <<script, n_test, iterated, num_processed, total_samples,
                   samples, output_file>>
    /\ UNCHANGED <<spanVars, charVars, evalVars, facadeVars>>

ScriptInit ==
    /\ script \in Scripts
    /\ script_pc = "load"
    /\ n_test \in 0 .. MaxTestSamples
    /\ output_file \in ExistingFiles(n_test)
    /\ iterated = <<>>
    /\ num_processed = 0
    /\ total_samples = 0
    /\ samples = <<>>
    /\ pc = "idle"
    /\ offsets = <<>>
    /\ probabilities = <<>>
    /\ answer_start_token = 0
    /\ answer_char_offset = 0
    /\ i = 0
    /\ spans = <<>>
    /\ current_span = <<>>
    /\ span_tokens = <<>>
    /\ open_tokens = {}
    /\ char_pc = "idle"
    /\ sample_index = 0
    /\ predicted_spans = <<>>
    /\ gold_spans = <<>>
    /\ total_overlap = 0
    /\ total_predicted = 0
    /\ total_gold = 0
    /\ metrics = <<>>
    /\ swapped = <<>>
    /\ exact_corpus = TRUE
    /\ disjoint_corpus = TRUE
    /\ EvalIdle
    /\ FacadeIdle

ScriptNext ==
    \/ LoadExisting
    \/ ProcessSample
    \/ MainReturns

ScriptSpec == ScriptInit /\ [][ScriptNext]_vars

\* ------------------------------------------------- baseline script claims
\* C26: resume without duplication. Started on an output file that holds
\* the first k test samples, main of either script ends with an in-memory
\* list that holds every test sample once, in corpus order.
C26_ResumeWithoutDuplication ==
    script_pc = "done" => samples = TestSamples(n_test)

\* C26 for ragas_baseline alone, which slices the test samples at
\* num_processed.
RagasResumesWithoutDuplication ==
    (script = "ragas_baseline" /\ script_pc = "done") =>
        samples = TestSamples(n_test)

\* C27: everything is persisted. When the loop of main has ended, the
\* output file holds the in-memory list: every sample appended during the
\* run, the ones after the last periodic write included.
C27_EverythingPersisted ==
    (script_pc = "done" /\ Len(samples) > num_processed) =>
        output_file = <<samples>>

\* What the code keeps of C27: the file, when written, holds the list as it
\* was at a pass whose index met the periodic test, and the final test
\* (against total_samples, the length before the run) is never met.
OnlyPeriodicWrites ==
    [][output_file' # output_file =>
           /\ output_file' = <<samples'>>
           /\ IF script = "chatgpt_baseline" THEN Len(samples) % 10 = 0
              ELSE Len(samples') % 50 = 0
      ]_vars

====
